---------------------------- MODULE Spec2Model ----------------------------
(***************************************************************************)
(* Shader-Pilot: the per-frame simulation core of useAppStore             *)
(* (camera physics, collision classification, flight telemetry, the audio  *)
(* and ship modulation routers, the look-ahead audio scheduler) and the    *)
(* event handlers that share its state (key presses, sound configuration   *)
(* edits, session loads, the audio graph's construction and teardown).     *)
(*                                                                         *)
(* Numbers.  The program computes in IEEE doubles.  The model computes in  *)
(* fixed point: every real quantity is an integer number of thousandths    *)
(* (U = 1000), times are integer milliseconds, products and quotients are  *)
(* truncated toward zero.  sin and cos are the degree-7/6 Taylor           *)
(* polynomials after range reduction.                                      *)
(***************************************************************************)
EXTENDS Integers, Sequences, FiniteSets, TLC

\* ------------------------------------------------------------------------
\* Bounds of the model (not program constants).
\* ------------------------------------------------------------------------
\* Frames followed in the flight specification.
MaxFrames == 3
\* Frames followed in the collision sound specification.
MaxSoundFrames == 3
\* Frames followed in the scheduler specification.
MaxSchedFrames == 4
\* Frames followed in the determinism specification.
MaxDetFrames == 3
\* Frames followed in the router specification.
MaxRouterFrames == 2
\* Zero-delay timers pending at once.
MaxTimers == 1
\* Audio contexts the host hands out in one behaviour.
MaxContexts == 2
\* Session loads in one behaviour.
MaxLoads == 2
\* Errors thrown out of handlers in one behaviour.
MaxErrors == 2
\* Frames followed in the failing-host specification.
MaxFaultFrames == 3
\* Frames followed in the turning specification.
MaxTurnFrames == 6
\* Frames followed in the steady-routing specification.
MaxSteadyFrames == 3
\* Frames followed in the scheduler-clock specification.
MaxClockFrames == 4
\* Frames followed in the arp-range specification.
MaxRangeFrames == 4
\* Frames followed in the direction-override specification.
MaxDirFrames == 4
\* Frames followed in the event-lifetime specification.
MaxLifeFrames == 3
\* Longest modulation list in the modulation-list specification.
MaxListLen == 3
\* Frames followed in the threshold specification.
MaxThreshFrames == 2
\* Frames followed in the pitch specification.
MaxPitchFrames == 4
\* Frames followed in the telemetry specification.
MaxTeleFrames == 4
\* Frames followed in the arpeggiator specification (a frame fires one arp
\* note at most).
MaxArpSteps == 18
\* Longest modulation list drawn for the router and ship specifications.
MaxMods == 2
\* Frames followed in the ship specification.
MaxShipFrames == 3
\* Frames followed in the forward-flight specification.
MaxForwardFrames == 56
\* Frames at rest before the forward key is pressed there.
MaxRestFrames == 2
\* Custom modulations held at once in the session file specification.
MaxCustomMods == 3

\* ------------------------------------------------------------------------
\* Fixed-point arithmetic.
\* ------------------------------------------------------------------------
U == 1000

Abs(x) == IF x < 0 THEN -x ELSE x
Sgn(x) == IF x < 0 THEN -1 ELSE IF x > 0 THEN 1 ELSE 0
Max2(a, b) == IF a >= b THEN a ELSE b
Min2(a, b) == IF a <= b THEN a ELSE b
\* Math.max(lo, Math.min(hi, x))
Clamp(lo, hi, x) == Max2(lo, Min2(hi, x))

\* Quotient truncated toward zero (b > 0).
TDiv(a, b) == IF a >= 0 THEN a \div b ELSE -((-a) \div b)

\* Product of two thousandths, in thousandths, without leaving 32 bits.
MulU(a, b) ==
    LET x == Max2(Abs(a), Abs(b))
        y == Min2(Abs(a), Abs(b))
    IN  Sgn(a) * Sgn(b) * ((x \div U) * y + ((x % U) * y) \div U)

\* Math.sqrt on a non-negative integer: the floor of the root.
RECURSIVE SqrtIter(_, _, _)
SqrtIter(n, lo, hi) ==
    IF lo >= hi THEN lo
    ELSE LET mid == (lo + hi + 1) \div 2
         IN  IF mid * mid <= n THEN SqrtIter(n, mid, hi)
             ELSE SqrtIter(n, lo, mid - 1)
Sqrt(n) == SqrtIter(n, 0, 40000)

\* pi, pi/2 and 2*pi in thousandths of a radian.
PI_U == 3142
HALF_PI_U == PI_U \div 2
TWO_PI_U == 2 * PI_U

\* sin on [0, pi/2]: x - x^3/6 + x^5/120 - x^7/5040, tabulated once.
SinCore(x) ==
    LET x2 == MulU(x, x)
        x3 == MulU(x2, x)
        x5 == MulU(x3, x2)
        x7 == MulU(x5, x2)
    IN  Min2(U, x - TDiv(x3, 6) + TDiv(x5, 120) - TDiv(x7, 5040))

SinTable == [x \in 0..HALF_PI_U |-> SinCore(x)]

\* Math.sin: reduce to (-pi, pi], reflect into [-pi/2, pi/2], use the oddness.
Sin(a) ==
    LET m == a % TWO_PI_U
        r == IF m > PI_U THEN m - TWO_PI_U ELSE m
        f == IF r > HALF_PI_U THEN PI_U - r
             ELSE IF r < -HALF_PI_U THEN -PI_U - r
             ELSE r
    IN  IF f >= 0 THEN SinTable[f] ELSE -SinTable[-f]

\* Math.cos(a) = sin(a + pi/2); exact at 0.
Cos(a) == IF a = 0 THEN U ELSE Sin(a + HALF_PI_U)

\* ------------------------------------------------------------------------
\* Program constants.
\* ------------------------------------------------------------------------
\* null / undefined of a reference or of an optional field.
NULL == 0

INITIAL_CAMERA_POS == <<0, -1490, 0>>
INITIAL_CAMERA_ROT == <<100, 0>>
InitialCamera ==
    [position |-> INITIAL_CAMERA_POS, rotation |-> INITIAL_CAMERA_ROT, roll |-> 0]

FLIGHT_PITCH_OFFSET == 100
\* The pitch clamp of the frame loop (1.57, not pi/2).
PITCH_LIMIT == 1570
\* Minimum time between two collision triggers (ms).
COLLISION_COOLDOWN == 500
\* Scheduler look-ahead (0.1 s, in ms).
LOOKAHEAD == 100
\* The dead band of the published proximity (0.02).
PROXIMITY_STEP == 20

ModulationSources ==
    {"speed", "acceleration", "altitude", "descent", "turning",
     "turningSigned", "heading", "pitch", "proximity", "time"}

MOD_RANGES ==
    [masterVolume |-> 1000] @@
    ("drone.gain" :> 1000 @@ "drone.filter" :> 2000000 @@ "drone.pitch" :> 24000 @@
     "atmosphere.gain" :> 1000 @@
     "arp.gain" :> 1000 @@ "arp.speed" :> 3000 @@ "arp.filter" :> 4000000 @@
     "arp.octaves" :> 3000 @@ "arp.direction" :> 1000 @@
     "rhythm.gain" :> 1000 @@ "rhythm.filter" :> 2000000 @@ "rhythm.bpm" :> 100000 @@
     "melody.gain" :> 1000 @@ "melody.density" :> 1000 @@
     "reverb.mix" :> 1000 @@ "reverb.tone" :> 5000000)

ModulationTargets == DOMAIN MOD_RANGES

SHIP_MOD_RANGES ==
    [complexity |-> 5000, fold1 |-> 500, fold2 |-> 500, fold3 |-> 1000,
     scale |-> 500, stretch |-> 1000, taper |-> 1000, twist |-> 1000,
     asymmetryX |-> 1000, asymmetryY |-> 1000, asymmetryZ |-> 1000,
     twistAsymX |-> 1000, scaleAsymX |-> 1000, fold1AsymX |-> 500,
     fold2AsymX |-> 500]

ShipModulationTargets == DOMAIN SHIP_MOD_RANGES

\* MIDI notes of the three modal scales.
SCALES ==
    [dorian   |-> <<62, 64, 65, 67, 69, 71, 72, 74>>,
     phrygian |-> <<62, 63, 65, 67, 69, 70, 72>>,
     lydian   |-> <<62, 64, 66, 67, 69, 71, 73>>]

Mod(id, enabled, source, target, amount) ==
    [id |-> id, enabled |-> enabled, source |-> source, target |-> target,
     amount |-> amount]

defaultSoundConfig ==
    [enabled |-> TRUE,
     masterVolume |-> 500,
     reverb |-> [enabled |-> TRUE, mix |-> 500, decay |-> 5000, tone |-> 2000000],
     drone |-> [enabled |-> TRUE, gain |-> 400, filter |-> 100000, pitch |-> 0],
     atmosphere |-> [enabled |-> TRUE, gain |-> 200, texture |-> "grit"],
     melody |-> [enabled |-> TRUE, gain |-> 300, density |-> 400, scale |-> "dorian"],
     arp |-> [enabled |-> TRUE, gain |-> 250, speed |-> 1000, octaves |-> 2000,
              filter |-> 600000, direction |-> "updown"],
     rhythm |-> [enabled |-> TRUE, gain |-> 400, bpm |-> 60000, filter |-> 150000],
     modulations |->
        << Mod("1", TRUE, "speed", "drone.filter", 400),
           Mod("5", TRUE, "altitude", "atmosphere.gain", 150),
           Mod("6", TRUE, "altitude", "drone.pitch", -100),
           Mod("new1", TRUE, "pitch", "arp.direction", 1500),
           Mod("new2", TRUE, "speed", "arp.speed", 800),
           Mod("new3", TRUE, "pitch", "arp.octaves", 1000) >>]

defaultShipConfig ==
    [complexity |-> 6000, fold1 |-> 750, fold2 |-> 850, fold3 |-> 150,
     scale |-> 1650, stretch |-> 1200, taper |-> 0, twist |-> 0,
     asymmetryX |-> 0, asymmetryY |-> 0, asymmetryZ |-> 0,
     twistAsymX |-> 0, scaleAsymX |-> 0, fold1AsymX |-> 0, fold2AsymX |-> 0,
     chaseDistance |-> 6500, chaseVerticalOffset |-> 0, pitchOffset |-> 0,
     generalScale |-> 1000, translucency |-> 1000,
     modulations |-> << >>]

\* ControlConfig = {}: every optional field absent.
emptyControlConfig ==
    [invertStrafe |-> FALSE, invertForward |-> FALSE, invertAscend |-> FALSE,
     invertPitch |-> FALSE, invertYaw |-> FALSE,
     forwardVelocity |-> NULL, strafeVelocity |-> NULL, ascendVelocity |-> NULL,
     pitchVelocity |-> NULL, yawVelocity |-> NULL,
     has |-> {}]

\* IEEE values that are not finite numbers (a division by dt = 0 makes them).
PosInf == 2000000000
NegInf == -PosInf
NaN == 2000000001
Finite(x) == x > NegInf /\ x < PosInf

\* a + b
FAdd(a, b) ==
    IF a = NaN \/ b = NaN THEN NaN
    ELSE IF a = PosInf THEN (IF b = NegInf THEN NaN ELSE PosInf)
    ELSE IF a = NegInf THEN (IF b = PosInf THEN NaN ELSE NegInf)
    ELSE IF ~Finite(b) THEN b
    ELSE a + b

\* a * b
FMul(a, b) ==
    IF a = NaN \/ b = NaN THEN NaN
    ELSE IF ~Finite(a) \/ ~Finite(b)
         THEN (IF a = 0 \/ b = 0 THEN NaN
               ELSE IF Sgn(a) * Sgn(b) > 0 THEN PosInf ELSE NegInf)
    ELSE MulU(a, b)

\* num / den for finite num and den >= 0, scaled by k/den (k > 0).
FDivScaled(num, k, den) ==
    IF den = 0
    THEN (IF num = 0 THEN NaN ELSE IF num > 0 THEN PosInf ELSE NegInf)
    ELSE TDiv(num * k, den)

\* Math.max(lo, Math.min(hi, x)): NaN stays NaN, infinities are clamped.
FClamp(lo, hi, x) == IF x = NaN THEN NaN ELSE Clamp(lo, hi, x)
\* Math.max(lo, x)
FMax(lo, x) == IF x = NaN THEN NaN ELSE Max2(lo, x)

\* The % of the language: the remainder has the sign of the dividend.
JsRem(a, b) == Sgn(a) * (Abs(a) % b)

\* ------------------------------------------------------------------------
\* State.
\* ------------------------------------------------------------------------
VARIABLES
    \* the host
    clock,                  \* the timestamp of the latest frame (ms)
    hostHasAudio,           \* window.AudioContext exists
    contexts,               \* every AudioContext constructed: its state
    audioNow,               \* ctx.currentTime of the held context (ms)
    timers,                 \* pending setTimeout(initAudio, 0) callbacks
    \* React state
    currentSessionId, soundConfig, shipConfig, controlConfig,
    collisionThresholdRed, collisionThresholdYellow,
    audioDeps,              \* the dependencies the cleanup effect last ran with
    \* refs read by the frame loop
    currentSessionIdRef, soundConfigRef, shipConfigRef, controlConfigRef,
    collisionThresholdRedRef, collisionThresholdYellowRef,
    keysPressed,
    cameraRef, renderCameraRef, cameraVelocityRef, cameraAngularVelocityRef,
    cameraRollRef, previousSpeedRef,
    collisionStateRef, collisionProximityRef, collisionCooldownRef,
    audioContextRef, audioNodesRef, liveAudioStateRef,
    nextMelodyTimeRef, nextArpTimeRef, nextRhythmTimeRef,
    arpNoteIndexRef, arpInternalDirectionRef,
    audioInputsRef, audioTargetAccumulatorsRef, effectiveShipConfigRef,
    lastTime,               \* the frame loop's closure variable
    \* what the latest frame did (observation only: no handler reads it)
    frame,
    loads,                  \* session loads so far
    sessionFile,            \* the session object applied last
    errors,                 \* errors thrown out of a handler, as the host counts them
                            \* (observation only: no handler reads it)
    transients,             \* the cleanup timers of synthesized events that have
                            \* not run yet, each with the nodes it will disconnect
    \* the camera of a run that began with this session applied to a newly
    \* constructed store and was given the same frames and keys since
    \* (observation only: no handler reads it)
    freshRun

hostVars == <<clock, hostHasAudio, contexts, audioNow, timers>>
stateVars == <<currentSessionId, soundConfig, shipConfig, controlConfig,
               collisionThresholdRed, collisionThresholdYellow, audioDeps>>
configRefs == <<currentSessionIdRef, soundConfigRef, shipConfigRef,
                controlConfigRef, collisionThresholdRedRef,
                collisionThresholdYellowRef>>
physVars == <<cameraRef, renderCameraRef, cameraVelocityRef,
              cameraAngularVelocityRef, cameraRollRef, previousSpeedRef>>
collVars == <<collisionStateRef, collisionProximityRef, collisionCooldownRef>>
graphVars == <<audioContextRef, audioNodesRef>>
seqVars == <<liveAudioStateRef, nextMelodyTimeRef, nextArpTimeRef,
             nextRhythmTimeRef>>
arpVars == <<arpNoteIndexRef, arpInternalDirectionRef>>
outVars == <<audioInputsRef, audioTargetAccumulatorsRef, effectiveShipConfigRef>>

vars == <<hostVars, stateVars, configRefs, keysPressed, physVars, collVars,
          graphVars, seqVars, arpVars, outVars, lastTime, frame, loads, sessionFile, errors, transients, freshRun>>

\* ------------------------------------------------------------------------
\* Camera physics (gameLoop, "Physics & Camera").
\* ------------------------------------------------------------------------
Held(keys, k) == IF k \in keys THEN 1 ELSE 0

\* controls.f ?? d
Control(controls, f, d) == IF f \in controls.has THEN controls[f] ELSE d

\* (held(plus) - held(minus)), negated when the axis is inverted.
AxisInput(keys, plus, minus, inverted) ==
    LET raw == Held(keys, plus) - Held(keys, minus)
    IN  IF inverted THEN -raw ELSE raw

\* The target velocity tVX, tVY, tVZ.
TargetVelocity(keys, controls, rot) ==
    LET fwd == AxisInput(keys, "w", "s", controls.invertForward)
        str == AxisInput(keys, "d", "a", controls.invertStrafe)
        asc == AxisInput(keys, " ", "shift", controls.invertAscend)
        p == rot[1]
        y == rot[2]
        cp == Cos(p - FLIGHT_PITCH_OFFSET)
        dirX == MulU(Sin(y), cp)
        dirY == -Sin(p - FLIGHT_PITCH_OFFSET)
        dirZ == MulU(Cos(y), cp)
        rightX == Cos(y)
        rightZ == -Sin(y)
        fv == Control(controls, "forwardVelocity", U)
        sv == Control(controls, "strafeVelocity", U)
        av == Control(controls, "ascendVelocity", U)
    IN  << MulU(dirX * fwd, fv) + MulU(rightX * str, sv),
           MulU(dirY * fwd, fv) + asc * av,
           MulU(dirZ * fwd, fv) + MulU(rightZ * str, sv) >>

\* v += (target - v) * num/den
Smooth(v, target, num, den) == v + TDiv((target - v) * num, den)

\* The smoothing with a gain above one: each frame overshoots the target.
SmoothedVelocityOvershoot(vel, tv) ==
    [i \in 1..3 |-> Smooth(vel[i], tv[i], 15, 10)]

SmoothedVelocity(vel, tv) ==
    [i \in 1..3 |-> Smooth(vel[i], tv[i], 1, 10)]

\* proposedPos = currentPos + velocity * dt
ProposedPos(pos, vel, dt) == [i \in 1..3 |-> pos[i] + MulU(vel[i], dt)]

\* The target angular velocity tRotX, tRotY.
TargetRotation(keys, controls) ==
    LET pitchInput == AxisInput(keys, "arrowdown", "arrowup", controls.invertPitch)
        yawInput == AxisInput(keys, "arrowright", "arrowleft", controls.invertYaw)
    IN  << pitchInput * Control(controls, "pitchVelocity", 300),
           yawInput * Control(controls, "yawVelocity", 300) >>

SmoothedAngular(ang, tr) ==
    [i \in 1..2 |-> Smooth(ang[i], tr[i], 7, 100)]

\* The rotation without the clamp on the pitch.
NewRotationFree(rot, ang, dt) ==
    << rot[1] + MulU(ang[1], dt), rot[2] + MulU(ang[2], dt) >>

\* rotation after the frame: pitch clamped, yaw free.
NewRotation(rot, ang, dt) ==
    << Clamp(-PITCH_LIMIT, PITCH_LIMIT, rot[1] + MulU(ang[1], dt)),
       rot[2] + MulU(ang[2], dt) >>

\* cameraRollRef after the frame: banks against the held yaw keys.
NewRoll(roll, keys, controls) ==
    LET yawInput == AxisInput(keys, "arrowright", "arrowleft", controls.invertYaw)
        target == -yawInput * MulU(Control(controls, "yawVelocity", 300), 300)
    IN  Smooth(roll, target, 1, 10)

Speed(v) == Sqrt(v[1] * v[1] + v[2] * v[2] + v[3] * v[3])

\* ------------------------------------------------------------------------
\* Collision classification (gameLoop, "Collision (Planet 1 only)").
\* ------------------------------------------------------------------------
\* The classification with the red threshold itself counted as colliding.
ClassifyInclusive(dist, red, yellow) ==
    IF dist <= red
    THEN [state |-> "colliding", proximity |-> U]
    ELSE IF dist < yellow
    THEN [state |-> "approaching",
          proximity |-> Clamp(0, U, U - TDiv((dist - red) * U, yellow - red))]
    ELSE [state |-> "none", proximity |-> 0]

\* The state and proximity for a distance and the two thresholds.
Classify(dist, red, yellow) ==
    IF dist < red
    THEN [state |-> "colliding", proximity |-> U]
    ELSE IF dist < yellow
    THEN [state |-> "approaching",
          proximity |-> Clamp(0, U, U - TDiv((dist - red) * U, yellow - red))]
    ELSE [state |-> "none", proximity |-> 0]

NotCollidable == [state |-> "none", proximity |-> 0]

\* The gate without the edge: a level trigger with the cooldown only.
CollisionTriggerLevel(newState, prevState, timestamp, cooldown) ==
    /\ newState = "colliding"
    /\ timestamp - cooldown > COLLISION_COOLDOWN

\* The edge-and-cooldown gate of the collision sound.
CollisionTrigger(newState, prevState, timestamp, cooldown) ==
    /\ newState = "colliding"
    /\ prevState # "colliding"
    /\ timestamp - cooldown > COLLISION_COOLDOWN

\* cameraVelocityRef after the collision test: zeroed when colliding.
VetoedVelocity(newState, smoothed) ==
    IF newState = "colliding" THEN <<0, 0, 0>> ELSE smoothed

\* The position committed even when the frame collides.
CommittedPositionAlways(newState, currentPos, proposedPos) == proposedPos

\* cameraRef.position after the collision test: the proposed position is
\* committed unless the frame collides.
CommittedPosition(newState, currentPos, proposedPos) ==
    IF newState # "colliding" THEN proposedPos ELSE currentPos

\* The dead band without the rule that always publishes a proximity of 1.0.
PublishedProximityNoFull(newProximity, published) ==
    IF \/ Abs(newProximity - published) > PROXIMITY_STEP
       \/ newProximity = 0
    THEN newProximity
    ELSE published

\* collisionProximityRef after the frame: small changes are not published.
PublishedProximity(newProximity, published) ==
    IF \/ Abs(newProximity - published) > PROXIMITY_STEP
       \/ newProximity = 0
       \/ newProximity = U
    THEN newProximity
    ELSE published

\* ------------------------------------------------------------------------
\* Telemetry (gameLoop, "SHARED PHYSICS INPUTS FOR AUDIO & SHIP").
\* ------------------------------------------------------------------------
Telemetry(pos, rot, vel, ang, currentSpeed, previousSpeed, dt, proximity, timestamp) ==
    [speed |-> currentSpeed,
     acceleration |->
        LET a == FDivScaled(currentSpeed - previousSpeed, U, dt)
        IN  IF Finite(a) THEN TDiv(a, 10) ELSE a,
     altitude |-> pos[2] - INITIAL_CAMERA_POS[2],
     descent |-> -vel[2] * 2,
     turning |-> Abs(ang[2]),
     turningSigned |-> ang[2],
     heading |-> TDiv(JsRem(rot[2], TWO_PI_U) * U, TWO_PI_U),
     pitch |-> TDiv(-rot[1] * U, PITCH_LIMIT),
     proximity |-> proximity,
     time |-> timestamp]

ZeroInputs == [s \in ModulationSources |-> 0]

\* ------------------------------------------------------------------------
\* Modulation routing (gameLoop, "Audio Update" and "SHIP MODULATION").
\* ------------------------------------------------------------------------
\* inputs[mod.source] || 0: a missing source, 0 and NaN all read as 0.
InputOrZero(inputs, source) ==
    IF source \in DOMAIN inputs /\ inputs[source] # NaN THEN inputs[source] ELSE 0

\* RANGES[mod.target] || 1.0
RangeOf(ranges, target) ==
    IF target \in DOMAIN ranges /\ ranges[target] # 0 THEN ranges[target] ELSE U

\* (inputs[mod.source] || 0) * mod.amount * range
Contribution(mod, inputs, ranges) ==
    FMul(FMul(InputOrZero(inputs, mod.source), mod.amount),
         RangeOf(ranges, mod.target))

\* The loop body without the test of mod.enabled.
ApplyModulationAll(acc, mod, inputs, ranges) ==
    IF mod.target \notin DOMAIN acc THEN acc
    ELSE [acc EXCEPT ![mod.target] = FAdd(@, Contribution(mod, inputs, ranges))]

\* The loop body assigning base-relative values instead of accumulating.
ApplyModulationAssign(acc, mod, inputs, ranges) ==
    IF ~mod.enabled THEN acc
    ELSE IF mod.target \notin DOMAIN acc THEN acc
    ELSE [acc EXCEPT ![mod.target] = Contribution(mod, inputs, ranges)]

\* One pass of the loop body over modulation mod.  A target that is no key
\* of the accumulator leaves every key of it as it was (the audio loop
\* writes a stray key, the ship loop skips the modulation).
ApplyModulation(acc, mod, inputs, ranges) ==
    IF ~mod.enabled THEN acc
    ELSE IF mod.target \notin DOMAIN acc THEN acc
    ELSE [acc EXCEPT ![mod.target] = FAdd(@, Contribution(mod, inputs, ranges))]

\* The loop over the modulation list, first to last, from accumulator acc.
RECURSIVE RouteFrom(_, _, _, _, _)
RouteFrom(acc, mods, i, inputs, ranges) ==
    IF i > Len(mods) THEN acc
    ELSE RouteFrom(ApplyModulation(acc, mods[i], inputs, ranges),
                   mods, i + 1, inputs, ranges)

\* The accumulators reset to the base values of the sound config.
AudioBase(sound) ==
    [masterVolume |-> sound.masterVolume] @@
    ("drone.gain" :> sound.drone.gain @@ "drone.filter" :> sound.drone.filter @@
     "drone.pitch" :> sound.drone.pitch @@
     "atmosphere.gain" :> sound.atmosphere.gain @@
     "arp.gain" :> sound.arp.gain @@ "arp.speed" :> sound.arp.speed @@
     "arp.filter" :> sound.arp.filter @@ "arp.octaves" :> sound.arp.octaves @@
     "arp.direction" :> 0 @@
     "rhythm.gain" :> sound.rhythm.gain @@ "rhythm.filter" :> sound.rhythm.filter @@
     "rhythm.bpm" :> sound.rhythm.bpm @@
     "melody.gain" :> sound.melody.gain @@ "melody.density" :> sound.melody.density @@
     "reverb.mix" :> sound.reverb.mix @@ "reverb.tone" :> sound.reverb.tone)

\* The router starting from the accumulators as the last frame left them.
RouteAudioCarried(sound, inputs) ==
    RouteFrom(audioTargetAccumulatorsRef, sound.modulations, 1, inputs, MOD_RANGES)

\* The audio router of one frame.
RouteAudio(sound, inputs) ==
    RouteFrom(AudioBase(sound), sound.modulations, 1, inputs, MOD_RANGES)

\* const { modulations, ...effectiveConfig } = ship
ShipBase(ship) == [f \in (DOMAIN ship) \ {"modulations"} |-> ship[f]]

\* The modulator starting from the effective values it published last.
RouteShipCarried(ship, inputs) ==
    RouteFrom(effectiveShipConfigRef, ship.modulations, 1, inputs, SHIP_MOD_RANGES)

\* The ship geometry modulator of one frame.
RouteShip(ship, inputs) ==
    RouteFrom(ShipBase(ship), ship.modulations, 1, inputs, SHIP_MOD_RANGES)

ZeroAccumulators == [t \in ModulationTargets |-> 0]

\* liveAudioStateRef after the router: the sequencer's clamped parameters.
LiveAudioState(acc) ==
    [rhythmBpm |-> FClamp(30000, 300000, acc["rhythm.bpm"]),
     arpSpeed |-> FClamp(100, 5000, acc["arp.speed"]),
     arpOctaves |-> FClamp(1000, 5000, acc["arp.octaves"]),
     melodyDensity |-> FClamp(0, 1000, acc["melody.density"])]

\* ------------------------------------------------------------------------
\* The audio graph (cleanupAudio, initAudio).
\* ------------------------------------------------------------------------
NoNodes ==
    [masterGain |-> FALSE, reverb |-> FALSE, drone |-> FALSE,
     atmosphere |-> FALSE, arp |-> FALSE, rhythm |-> FALSE]

\* The audio-side state the two procedures read and write, as one record.
AudioState ==
    [ctx |-> audioContextRef, nodes |-> audioNodesRef, contexts |-> contexts,
     now |-> audioNow, live |-> liveAudioStateRef,
     nextMelody |-> nextMelodyTimeRef, nextArp |-> nextArpTimeRef,
     nextRhythm |-> nextRhythmTimeRef]

SetAudioState(a) ==
    /\ audioContextRef' = a.ctx
    /\ audioNodesRef' = a.nodes
    /\ contexts' = a.contexts
    /\ audioNow' = a.now
    /\ liveAudioStateRef' = a.live
    /\ nextMelodyTimeRef' = a.nextMelody
    /\ nextArpTimeRef' = a.nextArp
    /\ nextRhythmTimeRef' = a.nextRhythm

\* cleanupAudio: close the held context unless closed, clear both refs.
cleanupAudio(a) ==
    [a EXCEPT
        !.contexts = IF a.ctx # NULL /\ a.contexts[a.ctx] # "closed"
                     THEN [a.contexts EXCEPT ![a.ctx] = "closed"]
                     ELSE a.contexts,
        !.ctx = NULL,
        !.nodes = NoNodes]

\* The instruments initAudio builds.
Instruments == {"reverb", "drone", "atmosphere", "arp", "rhythm"}

\* What the host lets fail in a call of initAudio: nothing, the AudioContext
\* constructor, or a node constructor called while one instrument is built
\* (createBuffer(2, 0, rate) of a reverb with decay 0, for one).
Faults == {"none", "context"} \cup Instruments

\* The call throws: initAudio has no handler, the error leaves it where it
\* arises.  An instrument that is switched off constructs nothing.
Thrown(a, cfg, hasAudioClass, fault) ==
    /\ a.ctx = NULL /\ hasAudioClass
    /\ \/ fault = "context"
       \/ fault \in Instruments /\ cfg[fault].enabled

\* The state an error in the construction of an instrument leaves behind:
\* the context is held and the live knobs are set (455-465); the local
\* nodes object is lost and the clocks are not reached.
Aborted(a, cfg, startState) ==
    [a EXCEPT
        !.contexts = Append(a.contexts, startState),
        !.ctx = Len(a.contexts) + 1,
        !.now = 0,
        !.live = [rhythmBpm |-> cfg.rhythm.bpm, arpSpeed |-> cfg.arp.speed,
                  arpOctaves |-> cfg.arp.octaves,
                  melodyDensity |-> cfg.melody.density]]

\* initAudio without its first line, the test of audioContextRef.
initAudioUnguarded(a, cfg, hasAudioClass, startState, fault) ==
    IF ~hasAudioClass THEN a
    ELSE IF fault = "context" THEN a
    ELSE IF fault \in Instruments /\ cfg[fault].enabled
    THEN Aborted(a, cfg, startState)
    ELSE [a EXCEPT
            !.contexts = Append(a.contexts, startState),
            !.ctx = Len(a.contexts) + 1,
            !.now = 0,
            !.live = [rhythmBpm |-> cfg.rhythm.bpm, arpSpeed |-> cfg.arp.speed,
                      arpOctaves |-> cfg.arp.octaves,
                      melodyDensity |-> cfg.melody.density],
            !.nodes = [masterGain |-> TRUE, reverb |-> cfg.reverb.enabled,
                       drone |-> cfg.drone.enabled,
                       atmosphere |-> cfg.atmosphere.enabled,
                       arp |-> cfg.arp.enabled, rhythm |-> cfg.rhythm.enabled],
            !.nextMelody = 0 + 2000,
            !.nextArp = 0 + 500,
            !.nextRhythm = 0 + 100]

\* initAudio with the sound config cfg of soundConfigRef.
\* The host starts the new context in startState (running, or suspended by
\* its autoplay policy); fault is what the host lets fail in this call.
initAudio(a, cfg, hasAudioClass, startState, fault) ==
    IF a.ctx # NULL THEN a
    ELSE IF ~hasAudioClass THEN a
    ELSE IF fault = "context" THEN a
    ELSE IF fault \in Instruments /\ cfg[fault].enabled
    THEN Aborted(a, cfg, startState)
    ELSE [a EXCEPT
            !.contexts = Append(a.contexts, startState),
            !.ctx = Len(a.contexts) + 1,
            !.now = 0,
            !.live = [rhythmBpm |-> cfg.rhythm.bpm, arpSpeed |-> cfg.arp.speed,
                      arpOctaves |-> cfg.arp.octaves,
                      melodyDensity |-> cfg.melody.density],
            !.nodes = [masterGain |-> TRUE, reverb |-> cfg.reverb.enabled,
                       drone |-> cfg.drone.enabled,
                       atmosphere |-> cfg.atmosphere.enabled,
                       arp |-> cfg.arp.enabled, rhythm |-> cfg.rhythm.enabled],
            !.nextMelody = 0 + 2000,
            !.nextArp = 0 + 500,
            !.nextRhythm = 0 + 100]

\* audioContextRef.current?.resume()
resume(a) ==
    IF a.ctx # NULL /\ a.contexts[a.ctx] = "suspended"
    THEN [a EXCEPT !.contexts[a.ctx] = "running"]
    ELSE a

\* ------------------------------------------------------------------------
\* Synthesis entry points (playArpNote, playRhythm, playGenerativeNote,
\* playCollisionSound): their guards and the arpeggiator's stepping.
\* ------------------------------------------------------------------------
\* Math.round of a positive number of thousandths, as a whole number.
Round(x) == (x + 500) \div U

\* totalNotes = scale.length * Math.max(1, Math.round(arpOctaves))
TotalNotes(cfg, live) ==
    IF live.arpOctaves = NaN THEN NaN
    ELSE Len(SCALES[cfg.melody.scale]) * Max2(1, Round(live.arpOctaves))

\* The override with inclusive thresholds (>= 0.3, <= -0.3).
ArpDirectionInclusive(cfg, dirMod) ==
    IF dirMod # NaN /\ dirMod >= 300 THEN "up"
    ELSE IF dirMod # NaN /\ dirMod <= -300 THEN "down"
    ELSE IF cfg.arp.direction = "unset" THEN "updown"
    ELSE cfg.arp.direction

\* cfg.arp.direction ?? 'updown', overridden by the routed arp.direction.
ArpDirection(cfg, dirMod) ==
    IF dirMod # NaN /\ dirMod > 300 THEN "up"
    ELSE IF dirMod # NaN /\ dirMod < -300 THEN "down"
    ELSE IF cfg.arp.direction = "unset" THEN "updown"
    ELSE cfg.arp.direction

\* The index and internal direction after one firing; rnd is Math.random().
ArpStep(index, internal, direction, totalNotes, rnd) ==
    LET moved ==
            IF totalNotes = NaN \/ (index = NaN /\ direction # "random")
            THEN [index |-> NaN,
                  internal |-> IF direction = "updown" /\ index # NaN
                                  /\ index + internal <= 0
                               THEN 1 ELSE internal]
            ELSE IF direction = "up"
            THEN [index |-> (index + 1) % totalNotes, internal |-> internal]
            ELSE IF direction = "down"
            THEN [index |-> (index - 1 + totalNotes) % totalNotes,
                  internal |-> internal]
            ELSE IF direction = "random"
            THEN [index |-> (rnd * totalNotes) \div U, internal |-> internal]
            ELSE IF direction = "updown"
            THEN LET i == index + internal
                 IN  IF i >= totalNotes - 1
                     THEN [index |-> totalNotes - 1, internal |-> -1]
                     ELSE IF i <= 0
                     THEN [index |-> 0, internal |-> 1]
                     ELSE [index |-> i, internal |-> internal]
            ELSE [index |-> index, internal |-> internal]
    IN  [moved EXCEPT !.index = IF @ = NaN THEN NaN
                                ELSE Max2(0, Min2(totalNotes - 1, @))]

\* The guards of the four entry points.
CanPlayMelody(ctx, nodes, cfg) == ctx # NULL /\ nodes.masterGain /\ cfg.melody.enabled
CanPlayArp(ctx, nodes, cfg) ==
    ctx # NULL /\ nodes.masterGain /\ nodes.arp /\ cfg.arp.enabled
CanPlayRhythm(ctx, nodes, cfg) ==
    ctx # NULL /\ nodes.masterGain /\ nodes.rhythm /\ cfg.rhythm.enabled
CanPlayCollision(ctx, nodes, cfg) == ctx # NULL /\ nodes.masterGain /\ cfg.enabled

\* The nodes of the graph that live as long as the graph does.
PersistentNodes ==
    {"masterGain", "limiter", "reverb.input", "reverb.output", "drone.gain",
     "atmosphere.gain", "arp.gain", "arp.filter", "rhythm.gain"}

\* What a synthesis call leaves behind: the audio time at which its
\* oscillators stop, the delay of its cleanup timer and the nodes the timer
\* disconnects.  duration is the Math.random() value of a melody note's
\* length (3 s to 8 s); the melody's release is 6 s.
Lifetime(kind, duration) ==
    IF kind = "melody"
    THEN LET length == 3000 + (duration * 5000) \div U
         IN  [stop |-> length + 6000 + 1000, delay |-> length + 6000 + 2000,
              nodes |-> {"osc", "subOsc", "filter", "vca"}]
    ELSE IF kind = "arp"
    THEN [stop |-> 400, delay |-> 500, nodes |-> {"osc", "env"}]
    ELSE IF kind = "rhythm"
    THEN [stop |-> 500, delay |-> 600,
          nodes |-> {"osc", "clickOsc", "clickGain", "gain"}]
    ELSE [stop |-> 400, delay |-> 500, nodes |-> {"osc", "gain"}]

\* The cleanup timer of an event synthesized into context ctx at wall time
\* timestamp for the audio time 'time': setTimeout(..., delay) runs no earlier
\* than timestamp + delay.
Transient(kind, ctx, timestamp, time, duration) ==
    [kind |-> kind, ctx |-> ctx, stop |-> time + Lifetime(kind, duration).stop,
     at |-> timestamp + Lifetime(kind, duration).delay,
     nodes |-> Lifetime(kind, duration).nodes]

\* ------------------------------------------------------------------------
\* The look-ahead scheduler (gameLoop, "Scheduling").
\* ------------------------------------------------------------------------
\* audioNow >= next - LOOKAHEAD (false when next is NaN)
Due(now, next) == next # NaN /\ now >= next - LOOKAHEAD

\* The play time taken from the schedule alone.
PlayTimeScheduled(now, next) == next

\* playTime = Math.max(audioNow, next)
PlayTime(now, next) == Max2(now, next)

\* 60 / rhythmBpm, in ms
Beat(bpm) == IF bpm = NaN THEN NaN ELSE (60 * U * U) \div bpm

\* (60 / rhythmBpm) * (Math.random() * 4 + 4)
MelodyInterval(live, rnd) ==
    IF Beat(live.rhythmBpm) = NaN THEN NaN
    ELSE MulU(Beat(live.rhythmBpm), 4 * rnd + 4 * U)

\* (60 / rhythmBpm) / (arpSpeed * 4)
ArpInterval(live) ==
    IF Beat(live.rhythmBpm) = NaN \/ live.arpSpeed = NaN THEN NaN
    ELSE (Beat(live.rhythmBpm) * U) \div (live.arpSpeed * 4)

\* 60 / rhythmBpm
RhythmInterval(live) == Beat(live.rhythmBpm)

\* ------------------------------------------------------------------------
\* The camera of a store that was newly constructed when the session was
\* applied: the values the refs are constructed with, stepped by the same
\* physics.
\* ------------------------------------------------------------------------
FreshStart ==
    [camera |-> InitialCamera, velocity |-> <<0, 0, 0>>,
     angular |-> <<0, 0>>, roll |-> 0]

FreshStep(f, keys, controls, dt, newState) ==
    LET smoothed == SmoothedVelocity(f.velocity,
                                     TargetVelocity(keys, controls,
                                                    f.camera.rotation))
        proposedPos == ProposedPos(f.camera.position, smoothed, dt)
        angular == SmoothedAngular(f.angular, TargetRotation(keys, controls))
        roll == NewRoll(f.roll, keys, controls)
    IN  [camera |-> [position |-> CommittedPosition(newState, f.camera.position,
                                                    proposedPos),
                     rotation |-> NewRotation(f.camera.rotation, angular, dt),
                     roll |-> roll],
         velocity |-> VetoedVelocity(newState, smoothed),
         angular |-> angular,
         roll |-> roll]

\* ------------------------------------------------------------------------
\* The frame loop (gameLoop), one call.
\*   adv   the host time since the previous frame (ms)
\*   dist  what getPlanet1Distance returns for the proposed position.  The
\*         fractal fold over the uniforms and the accumulated time is not
\*         computed here: every value it can return is drawn by the caller.
\*   rnd   the values Math.random() returns: rnd.density, rnd.interval (the
\*         melody's gate and spacing), rnd.arp (the random arp direction),
\*         rnd.duration (the length of a melody note)
\* ------------------------------------------------------------------------
\* The log of the latest frame.  n counts the frames, sounds the calls of
\* playCollisionSound that played and arps the arp notes played so far;
\* lastSound is the timestamp of the latest collision sound (NULL: none yet);
\* proposed is the position the frame proposed, cooldown the value of
\* collisionCooldownRef it started from and ship the ShipConfig it read.
NoFrame ==
    [n |-> 0, timestamp |-> 0, dt |-> 0, collidable |-> FALSE, dist |-> 0,
     red |-> 0, yellow |-> 0, prevState |-> "none", newState |-> "none",
     newProximity |-> 0, proposed |-> INITIAL_CAMERA_POS, cooldown |-> 0,
     soundReady |-> FALSE, collisionSound |-> FALSE, lastSound |-> NULL,
     sounds |-> 0, routed |-> FALSE, audioNow |-> 0, events |-> {}, arps |-> 0,
     ship |-> defaultShipConfig,
     sound |-> defaultSoundConfig]

gameLoop(adv, dist, rnd) ==
    LET timestamp == clock + adv
        last == IF lastTime = 0 THEN timestamp ELSE lastTime
        dt == Min2(timestamp - last, 100)
        controls == controlConfigRef
        sound == soundConfigRef
        ship == shipConfigRef
        sessionId == currentSessionIdRef
        keys == keysPressed
        rot == cameraRef.rotation
        currentPos == cameraRef.position
        collidable == sessionId = "1"
        red == collisionThresholdRedRef
        yellow == collisionThresholdYellowRef
        routed == /\ sessionId = "1" /\ audioContextRef # NULL
                  /\ audioNodesRef.masterGain /\ sound.enabled
        now == IF audioContextRef # NULL /\ contexts[audioContextRef] = "running"
               THEN audioNow + adv ELSE audioNow
    IN
    \* --- Physics & Camera
    \E smoothed \in {SmoothedVelocity(cameraVelocityRef,
                                      TargetVelocity(keys, controls, rot))} :
    \E proposedPos \in {ProposedPos(currentPos, smoothed, dt)} :
    \* --- Collision (Planet 1 only)
    \E cls \in {IF collidable THEN Classify(dist, red, yellow) ELSE NotCollidable} :
    \E trigger \in {CollisionTrigger(cls.state, collisionStateRef, timestamp,
                                     collisionCooldownRef)} :
    \E velocity \in {VetoedVelocity(cls.state, smoothed)} :
    \E position \in {CommittedPosition(cls.state, currentPos, proposedPos)} :
    \E published \in {PublishedProximity(cls.proximity, collisionProximityRef)} :
    \* --- Rotation
    \E angular \in {SmoothedAngular(cameraAngularVelocityRef,
                                    TargetRotation(keys, controls))} :
    \E rotation \in {NewRotation(rot, angular, dt)} :
    \E currentSpeed \in {Speed(velocity)} :
    \E roll \in {NewRoll(cameraRollRef, keys, controls)} :
    \* --- Shared physics inputs
    \E inputs \in {Telemetry(position, rotation, velocity, angular, currentSpeed,
                             previousSpeedRef, dt, published, timestamp)} :
    \* --- Audio update
    \E acc \in {IF routed THEN RouteAudio(sound, inputs)
                ELSE audioTargetAccumulatorsRef} :
    \E live \in {IF routed THEN LiveAudioState(acc) ELSE liveAudioStateRef} :
    \* --- Scheduling
    \E melodyDue \in {routed /\ sound.melody.enabled /\ Due(now, nextMelodyTimeRef)} :
    \E arpDue \in {routed /\ sound.arp.enabled /\ Due(now, nextArpTimeRef)} :
    \E rhythmDue \in {routed /\ sound.rhythm.enabled /\ Due(now, nextRhythmTimeRef)} :
    \E melodyPlays \in {/\ melodyDue /\ live.melodyDensity # NaN
                        /\ rnd.density < live.melodyDensity
                        /\ CanPlayMelody(audioContextRef, audioNodesRef, sound)} :
    \E arpPlays \in {arpDue /\ CanPlayArp(audioContextRef, audioNodesRef, sound)} :
    \E rhythmPlays \in {rhythmDue /\ CanPlayRhythm(audioContextRef, audioNodesRef, sound)} :
    \E arp \in {IF arpPlays
                THEN ArpStep(arpNoteIndexRef, arpInternalDirectionRef,
                             ArpDirection(sound, acc["arp.direction"]),
                             TotalNotes(sound, live), rnd.arp)
                ELSE [index |-> arpNoteIndexRef,
                      internal |-> arpInternalDirectionRef]} :
    LET camera == [position |-> position, rotation |-> rotation, roll |-> roll]
        collisionSound ==
            /\ trigger
            /\ sound.enabled /\ audioContextRef # NULL /\ audioNodesRef.masterGain
            /\ CanPlayCollision(audioContextRef, audioNodesRef, sound)
        events ==
            (IF melodyPlays
             THEN {[kind |-> "melody", due |-> nextMelodyTimeRef,
                    time |-> PlayTime(now, nextMelodyTimeRef), index |-> 0]}
             ELSE {})
            \cup
            (IF arpPlays
             THEN {[kind |-> "arp", due |-> nextArpTimeRef,
                    time |-> PlayTime(now, nextArpTimeRef), index |-> arp.index]}
             ELSE {})
            \cup
            (IF rhythmPlays
             THEN {[kind |-> "rhythm", due |-> nextRhythmTimeRef,
                    time |-> PlayTime(now, nextRhythmTimeRef), index |-> 0]}
             ELSE {})
    IN  /\ clock' = timestamp
        /\ lastTime' = timestamp
        /\ cameraVelocityRef' = velocity
        /\ cameraRef' = camera
        /\ renderCameraRef' = camera
        /\ cameraAngularVelocityRef' = angular
        /\ cameraRollRef' = roll
        /\ previousSpeedRef' = currentSpeed
        /\ collisionStateRef' = cls.state
        /\ collisionProximityRef' = published
        /\ collisionCooldownRef' = IF trigger THEN timestamp ELSE collisionCooldownRef
        /\ audioInputsRef' = inputs
        /\ audioTargetAccumulatorsRef' = acc
        /\ liveAudioStateRef' = live
        /\ audioNow' = now
        /\ nextMelodyTimeRef' = IF melodyDue
                                THEN FAdd(nextMelodyTimeRef,
                                          MelodyInterval(live, rnd.interval))
                                ELSE nextMelodyTimeRef
        /\ nextArpTimeRef' = IF arpDue
                             THEN FAdd(nextArpTimeRef, ArpInterval(live))
                             ELSE nextArpTimeRef
        /\ nextRhythmTimeRef' = IF rhythmDue
                                THEN FAdd(nextRhythmTimeRef, RhythmInterval(live))
                                ELSE nextRhythmTimeRef
        /\ arpNoteIndexRef' = arp.index
        /\ arpInternalDirectionRef' = arp.internal
        /\ effectiveShipConfigRef' = RouteShip(ship, inputs)
        /\ frame' = [n |-> frame.n + 1, timestamp |-> timestamp, dt |-> dt,
                     collidable |-> collidable,
                     dist |-> IF collidable THEN dist ELSE 0,
                     red |-> red, yellow |-> yellow,
                     prevState |-> collisionStateRef, newState |-> cls.state,
                     newProximity |-> cls.proximity,
                     proposed |-> proposedPos, cooldown |-> collisionCooldownRef,
                     soundReady |-> CanPlayCollision(audioContextRef,
                                                     audioNodesRef, sound),
                     collisionSound |-> collisionSound,
                     lastSound |-> IF collisionSound THEN timestamp
                                   ELSE frame.lastSound,
                     sounds |-> frame.sounds + (IF collisionSound THEN 1 ELSE 0),
                     routed |-> routed, audioNow |-> now, events |-> events,
                     arps |-> frame.arps + (IF arpPlays THEN 1 ELSE 0),
                     ship |-> ship, sound |-> sound]
        \* the host has run the cleanup timers that fell due before this frame
        /\ transients' =
               { r \in transients : r.at >= timestamp }
               \cup { Transient(e.kind, audioContextRef, timestamp, e.time,
                                rnd.duration) : e \in events }
               \cup (IF collisionSound
                     THEN {Transient("collision", audioContextRef, timestamp, now, 0)}
                     ELSE {})
        /\ freshRun' = FreshStep(freshRun, keys, controls, dt, cls.state)
        /\ UNCHANGED <<hostHasAudio, contexts, timers, stateVars, configRefs,
                       keysPressed, audioContextRef, audioNodesRef, loads,
                       sessionFile, errors>>

\* ------------------------------------------------------------------------
\* Event handlers.
\* ------------------------------------------------------------------------
\* key.toLowerCase() on the keys the handlers are given.
ToLowerCase(key) ==
    CASE key = "W" -> "w"
      [] key = "S" -> "s"
      [] key = "A" -> "a"
      [] key = "D" -> "d"
      [] key = "Shift" -> "shift"
      [] key = "ArrowUp" -> "arrowup"
      [] key = "ArrowDown" -> "arrowdown"
      [] key = "ArrowLeft" -> "arrowleft"
      [] key = "ArrowRight" -> "arrowright"
      [] OTHER -> key

\* pressKey(key): the first key press of an audio-capable session builds the
\* audio graph; the lower-cased key joins the held set.  An error thrown by
\* initAudio leaves pressKey before resume() and before the key is added.
pressKey(key, startState, fault) ==
    LET build == /\ currentSessionIdRef = "1"
                 /\ audioContextRef = NULL
                 /\ soundConfigRef.enabled
        thrown == build /\ Thrown(AudioState, soundConfigRef, hostHasAudio, fault)
        built == initAudio(AudioState, soundConfigRef, hostHasAudio,
                           startState, fault)
    IN  /\ build /\ hostHasAudio => Len(contexts) < MaxContexts
        /\ thrown => errors < MaxErrors
        /\ errors' = IF thrown THEN errors + 1 ELSE errors
        /\ SetAudioState(IF thrown THEN built
                         ELSE IF build THEN resume(built)
                         ELSE AudioState)
        /\ keysPressed' = IF thrown THEN keysPressed
                          ELSE keysPressed \cup {ToLowerCase(key)}
        /\ UNCHANGED <<clock, hostHasAudio, timers, stateVars, configRefs,
                       physVars, collVars, arpVars, outVars, lastTime, frame,
                       loads, sessionFile, transients, freshRun>>

\* releaseKey(key)
releaseKey(key) ==
    /\ keysPressed' = keysPressed \ {ToLowerCase(key)}
    /\ UNCHANGED <<hostVars, stateVars, configRefs, physVars, collVars,
                   graphVars, seqVars, arpVars, outVars, lastTime, frame, loads, sessionFile, errors, transients, freshRun>>

\* The config with the field at a dotted key path replaced
\* (handleSoundConfigChange's JSON clone and path walk).
SetPath(cfg, path, value) ==
    IF Len(path) = 1
    THEN [cfg EXCEPT ![path[1]] = value]
    ELSE [cfg EXCEPT ![path[1]][path[2]] = value]

\* handleSoundConfigChange(key, value), key given as its split path.
handleSoundConfigChange(path, value) ==
    /\ timers' = IF path = <<"enabled">> /\ value = TRUE
                 THEN timers + 1 ELSE timers
    /\ soundConfig' = SetPath(soundConfig, path, value)
    /\ UNCHANGED <<clock, hostHasAudio, contexts, audioNow,
                   currentSessionId, shipConfig, controlConfig,
                   collisionThresholdRed, collisionThresholdYellow, audioDeps,
                   configRefs, keysPressed, physVars, collVars, graphVars,
                   seqVars, arpVars, outVars, lastTime, frame, loads, sessionFile, errors, transients, freshRun>>

\* A zero-delay timer set by handleSoundConfigChange runs initAudio.
runInitAudioTimer(startState, fault) ==
    /\ timers > 0
    /\ audioContextRef = NULL /\ hostHasAudio => Len(contexts) < MaxContexts
    /\ Thrown(AudioState, soundConfigRef, hostHasAudio, fault) => errors < MaxErrors
    /\ timers' = timers - 1
    /\ errors' = IF Thrown(AudioState, soundConfigRef, hostHasAudio, fault)
                 THEN errors + 1 ELSE errors
    /\ SetAudioState(initAudio(AudioState, soundConfigRef, hostHasAudio,
                               startState, fault))
    /\ UNCHANGED <<clock, hostHasAudio, stateVars, configRefs, keysPressed,
                   physVars, collVars, arpVars, outVars, lastTime, frame, loads, sessionFile, transients, freshRun>>

\* sessionState.f ?? d
Loaded(session, f, d) == IF f \in session.has THEN session[f] ELSE d

\* An object without keys: {}, and what spreading undefined adds.
EmptyObject == << >>

\* { ...a, ...b }: the keys of b, then those of a that b lacks.
Spread(a, b) == b @@ a

\* loaded?.f || {} for a sub-object f
PartOf(loaded, f) == IF f \in DOMAIN loaded THEN loaded[f] ELSE EmptyObject

\* The merge with the stock modulation list taken whatever the file holds.
MergedSoundConfigStock(session) ==
    LET loaded == Loaded(session, "soundConfig", EmptyObject)
        merged == Spread(defaultSoundConfig, loaded)
        part(f) == Spread(defaultSoundConfig[f], PartOf(loaded, f))
    IN  [enabled |-> merged.enabled,
         masterVolume |-> merged.masterVolume,
         reverb |-> part("reverb"),
         drone |-> part("drone"),
         atmosphere |-> part("atmosphere"),
         melody |-> part("melody"),
         arp |-> part("arp"),
         rhythm |-> part("rhythm"),
         modulations |-> defaultSoundConfig.modulations]

\* The sound config applySessionState builds from the loaded one: the
\* defaults, under the loaded top-level keys, with every instrument merged
\* key by key and the modulation list taken whole (the loaded list, even an
\* empty one, or else the default list).
MergedSoundConfig(session) ==
    LET loaded == Loaded(session, "soundConfig", EmptyObject)
        merged == Spread(defaultSoundConfig, loaded)
        part(f) == Spread(defaultSoundConfig[f], PartOf(loaded, f))
    IN  [enabled |-> merged.enabled,
         masterVolume |-> merged.masterVolume,
         reverb |-> part("reverb"),
         drone |-> part("drone"),
         atmosphere |-> part("atmosphere"),
         melody |-> part("melody"),
         arp |-> part("arp"),
         rhythm |-> part("rhythm"),
         modulations |-> IF "modulations" \in DOMAIN loaded
                         THEN loaded.modulations
                         ELSE defaultSoundConfig.modulations]

\* { ...defaultShipConfig, ...(sessionState.shipConfig ?? {}) }
LoadedShipConfig(session) ==
    Spread(defaultShipConfig, Loaded(session, "shipConfig", EmptyObject))

\* applySessionState(sessionState)
applySessionState(session) ==
    /\ SetAudioState(cleanupAudio(AudioState))
    /\ currentSessionId' = Loaded(session, "sessionId", "local-file")
    /\ controlConfig' = Loaded(session, "controlConfig", emptyControlConfig)
    /\ soundConfig' = MergedSoundConfig(session)
    /\ shipConfig' = LoadedShipConfig(session)
    /\ collisionThresholdRed' = Loaded(session, "collisionThresholdRed", 2)
    /\ collisionThresholdYellow' = Loaded(session, "collisionThresholdYellow", 20)
    /\ cameraRef' = InitialCamera
    /\ renderCameraRef' = InitialCamera
    /\ collisionStateRef' = "none"
    /\ collisionProximityRef' = 0
    /\ previousSpeedRef' = 0
    /\ UNCHANGED <<clock, hostHasAudio, timers, audioDeps, configRefs,
                   keysPressed, cameraVelocityRef, cameraAngularVelocityRef,
                   cameraRollRef, collisionCooldownRef, arpVars, outVars,
                   lastTime, frame>>

\* A session file or a picked file is loaded (loadSession, handleFileChange).
loadSession(session) ==
    /\ loads < MaxLoads
    /\ loads' = loads + 1
    /\ sessionFile' = session
    /\ freshRun' = FreshStart
    /\ errors' = errors
    /\ transients' = transients
    /\ applySessionState(session)

\* The effects of the render that follows a state change: the ref-syncing
\* effects, and the effect on [soundConfig.enabled, currentSessionId] that
\* tears the graph down outside an audio-capable, sound-enabled session.
EffectsPending ==
    \/ currentSessionIdRef # currentSessionId
    \/ soundConfigRef # soundConfig
    \/ shipConfigRef # shipConfig
    \/ controlConfigRef # controlConfig
    \/ collisionThresholdRedRef # collisionThresholdRed
    \/ collisionThresholdYellowRef # collisionThresholdYellow
    \/ audioDeps # <<soundConfig.enabled, currentSessionId>>

runEffects ==
    /\ EffectsPending
    /\ currentSessionIdRef' = currentSessionId
    /\ soundConfigRef' = soundConfig
    /\ shipConfigRef' = shipConfig
    /\ controlConfigRef' = controlConfig
    /\ collisionThresholdRedRef' = collisionThresholdRed
    /\ collisionThresholdYellowRef' = collisionThresholdYellow
    /\ audioDeps' = <<soundConfig.enabled, currentSessionId>>
    /\ SetAudioState(IF /\ audioDeps # <<soundConfig.enabled, currentSessionId>>
                        /\ (currentSessionId # "1" \/ ~soundConfig.enabled)
                     THEN cleanupAudio(AudioState)
                     ELSE AudioState)
    /\ UNCHANGED <<clock, hostHasAudio, timers, currentSessionId, soundConfig,
                   shipConfig, controlConfig, collisionThresholdRed,
                   collisionThresholdYellow, keysPressed, physVars, collVars,
                   arpVars, outVars, lastTime, frame, loads, sessionFile, errors, transients, freshRun>>

\* handleShipConfigChange(key, value)
handleShipConfigChange(key, value) ==
    /\ shipConfig' = [shipConfig EXCEPT ![key] = value]
    /\ UNCHANGED <<hostVars, currentSessionId, soundConfig, controlConfig,
                   collisionThresholdRed, collisionThresholdYellow, audioDeps,
                   configRefs, keysPressed, physVars, collVars, graphVars,
                   seqVars, arpVars, outVars, lastTime, frame, loads, sessionFile, errors, transients, freshRun>>

\* The collision panel's two sliders.
setCollisionThresholdRed(value) ==
    /\ collisionThresholdRed' = value
    /\ UNCHANGED <<hostVars, currentSessionId, soundConfig, shipConfig,
                   controlConfig, collisionThresholdYellow, audioDeps,
                   configRefs, keysPressed, physVars, collVars, graphVars,
                   seqVars, arpVars, outVars, lastTime, frame, loads, sessionFile, errors, transients, freshRun>>

setCollisionThresholdYellow(value) ==
    /\ collisionThresholdYellow' = value
    /\ UNCHANGED <<hostVars, currentSessionId, soundConfig, shipConfig,
                   controlConfig, collisionThresholdRed, audioDeps,
                   configRefs, keysPressed, physVars, collVars, graphVars,
                   seqVars, arpVars, outVars, lastTime, frame, loads, sessionFile, errors, transients, freshRun>>

\* setSoundConfig(cfg) of a handler that touches nothing else.
setSoundConfig(cfg) ==
    /\ soundConfig' = cfg
    /\ UNCHANGED <<hostVars, currentSessionId, shipConfig, controlConfig,
                   collisionThresholdRed, collisionThresholdYellow, audioDeps,
                   configRefs, keysPressed, physVars, collVars, graphVars,
                   seqVars, arpVars, outVars, lastTime, frame, loads, sessionFile, errors, transients, freshRun>>

\* An add that keeps the id of the object it is given.
addSoundModulationKeepId(mod, uuid) ==
    setSoundConfig([soundConfig EXCEPT
        !.modulations = Append(@, Spread(mod, [enabled |-> TRUE]))])

\* addSoundModulation(mod): appended with a new id (uuidv4()) and enabled.
addSoundModulation(mod, uuid) ==
    setSoundConfig([soundConfig EXCEPT
        !.modulations = Append(@, Spread(mod, [id |-> uuid, enabled |-> TRUE]))])

\* updateSoundModulation(id, newConfig): the keys of newConfig replace those
\* of every modulation with this id.
updateSoundModulation(id, newConfig) ==
    setSoundConfig([soundConfig EXCEPT
        !.modulations = [i \in 1..Len(@) |->
                            IF @[i].id = id THEN Spread(@[i], newConfig) ELSE @[i]]])

\* removeSoundModulation(id)
removeSoundModulation(id) ==
    setSoundConfig([soundConfig EXCEPT
        !.modulations = SelectSeq(@, LAMBDA mod : mod.id # id)])

\* setShipConfig(cfg) of a handler that touches nothing else.
setShipConfig(cfg) ==
    /\ shipConfig' = cfg
    /\ UNCHANGED <<hostVars, currentSessionId, soundConfig, controlConfig,
                   collisionThresholdRed, collisionThresholdYellow, audioDeps,
                   configRefs, keysPressed, physVars, collVars, graphVars,
                   seqVars, arpVars, outVars, lastTime, frame, loads, sessionFile, errors, transients, freshRun>>

\* addShipModulation(mod), updateShipModulation(id, newConfig) and
\* removeShipModulation(id): the same three operations on the ship's list.
addShipModulation(mod, uuid) ==
    setShipConfig([shipConfig EXCEPT
        !.modulations = Append(@, Spread(mod, [id |-> uuid, enabled |-> TRUE]))])

updateShipModulation(id, newConfig) ==
    setShipConfig([shipConfig EXCEPT
        !.modulations = [i \in 1..Len(@) |->
                            IF @[i].id = id THEN Spread(@[i], newConfig) ELSE @[i]]])

removeShipModulation(id) ==
    setShipConfig([shipConfig EXCEPT
        !.modulations = SelectSeq(@, LAMBDA mod : mod.id # id)])

\* ------------------------------------------------------------------------
\* Session files (JSON.stringify, JSON.parse).
\* ------------------------------------------------------------------------
\* The text of a number: sign, integer digits and the digits after the
\* point; null for a value that is not finite.
JsonNumber(x) ==
    IF Finite(x)
    THEN [neg |-> x < 0, int |-> Abs(x) \div U, frac |-> Abs(x) % U]
    ELSE [null |-> TRUE]

\* The number a text reads as (null stays null, which arithmetic reads as 0).
ParseNumber(t) ==
    IF "null" \in DOMAIN t THEN NULL
    ELSE (IF t.neg THEN -1 ELSE 1) * (t.int * U + t.frac)

\* The keys of the sound config, of its instruments and of a modulation
\* that hold numbers, and those of the ship config.
SoundNumberKeys ==
    {"masterVolume", "mix", "decay", "tone", "gain", "filter", "pitch",
     "density", "speed", "octaves", "bpm", "amount"}
ShipNumberKeys == (DOMAIN defaultShipConfig \ {"modulations"}) \cup {"amount"}

\* An object of numbers, strings and booleans, key by key.
StringifyFlat(obj, numberKeys) ==
    [f \in DOMAIN obj |-> IF f \in numberKeys THEN JsonNumber(obj[f]) ELSE obj[f]]
ParseFlat(doc, numberKeys) ==
    [f \in DOMAIN doc |-> IF f \in numberKeys THEN ParseNumber(doc[f]) ELSE doc[f]]

\* A sound or ship config: flat keys, instrument objects, the modulations.
StringifyConfig(cfg, numberKeys) ==
    [f \in DOMAIN cfg |->
        IF f = "modulations"
        THEN [i \in 1..Len(cfg[f]) |-> StringifyFlat(cfg[f][i], numberKeys)]
        ELSE IF f \in DOMAIN defaultSoundConfig \ {"enabled", "masterVolume"}
        THEN StringifyFlat(cfg[f], numberKeys)
        ELSE IF f \in numberKeys THEN JsonNumber(cfg[f])
        ELSE cfg[f]]
ParseConfig(doc, numberKeys) ==
    [f \in DOMAIN doc |->
        IF f = "modulations"
        THEN [i \in 1..Len(doc[f]) |-> ParseFlat(doc[f][i], numberKeys)]
        ELSE IF f \in DOMAIN defaultSoundConfig \ {"enabled", "masterVolume"}
        THEN ParseFlat(doc[f], numberKeys)
        ELSE IF f \in numberKeys THEN ParseNumber(doc[f])
        ELSE doc[f]]

\* JSON.stringify(sessionState)
JsonStringify(session) ==
    [session EXCEPT !.soundConfig = StringifyConfig(@, SoundNumberKeys),
                    !.shipConfig = StringifyConfig(@, ShipNumberKeys),
                    !.collisionThresholdRed = JsonNumber(@),
                    !.collisionThresholdYellow = JsonNumber(@)]

\* JSON.parse(text)
JsonParse(doc) ==
    [doc EXCEPT !.soundConfig = ParseConfig(@, SoundNumberKeys),
                !.shipConfig = ParseConfig(@, ShipNumberKeys),
                !.collisionThresholdRed = ParseNumber(@),
                !.collisionThresholdYellow = ParseNumber(@)]

\* ------------------------------------------------------------------------
\* Initial states.
\* ------------------------------------------------------------------------
\* A complete session file: what getSessionState writes.
Session(id, controls, sound, ship, red, yellow) ==
    [sessionId |-> id, controlConfig |-> controls, soundConfig |-> sound,
     shipConfig |-> ship, collisionThresholdRed |-> red,
     collisionThresholdYellow |-> yellow,
     has |-> {"sessionId", "controlConfig", "soundConfig", "shipConfig",
              "collisionThresholdRed", "collisionThresholdYellow"}]

\* getSessionState(): the saved fields of the store.
getSessionState ==
    Session(currentSessionId, controlConfig, soundConfig, shipConfig,
            collisionThresholdRed, collisionThresholdYellow)

\* handleFileChange over a picked file: applySessionState(JSON.parse(text)).
handleFileChange(text) == loadSession(JsonParse(text))

\* The store after construction, the mount effect's load of session and the
\* effects of the render that follows, with the first frame still to come.
Booted(session, t0, hasAudioClass) ==
    /\ clock = t0
    /\ hostHasAudio = hasAudioClass
    /\ contexts = << >>
    /\ audioNow = 0
    /\ timers = 0
    /\ currentSessionId = Loaded(session, "sessionId", "local-file")
    /\ soundConfig = MergedSoundConfig(session)
    /\ shipConfig = LoadedShipConfig(session)
    /\ controlConfig = Loaded(session, "controlConfig", emptyControlConfig)
    /\ collisionThresholdRed = Loaded(session, "collisionThresholdRed", 2)
    /\ collisionThresholdYellow = Loaded(session, "collisionThresholdYellow", 20)
    /\ audioDeps = <<soundConfig.enabled, currentSessionId>>
    /\ currentSessionIdRef = currentSessionId
    /\ soundConfigRef = soundConfig
    /\ shipConfigRef = shipConfig
    /\ controlConfigRef = controlConfig
    /\ collisionThresholdRedRef = collisionThresholdRed
    /\ collisionThresholdYellowRef = collisionThresholdYellow
    /\ keysPressed = {}
    /\ cameraRef = InitialCamera
    /\ renderCameraRef = InitialCamera
    /\ cameraVelocityRef = <<0, 0, 0>>
    /\ cameraAngularVelocityRef = <<0, 0>>
    /\ cameraRollRef = 0
    /\ previousSpeedRef = 0
    /\ collisionStateRef = "none"
    /\ collisionProximityRef = 0
    /\ collisionCooldownRef = 0
    /\ audioContextRef = NULL
    /\ audioNodesRef = NoNodes
    /\ liveAudioStateRef =
          [rhythmBpm |-> defaultSoundConfig.rhythm.bpm,
           arpSpeed |-> defaultSoundConfig.arp.speed,
           arpOctaves |-> defaultSoundConfig.arp.octaves,
           melodyDensity |-> defaultSoundConfig.melody.density]
    /\ nextMelodyTimeRef = 0
    /\ nextArpTimeRef = 0
    /\ nextRhythmTimeRef = 0
    /\ arpNoteIndexRef = 0
    /\ arpInternalDirectionRef = 1
    /\ audioInputsRef = ZeroInputs
    /\ audioTargetAccumulatorsRef = ZeroAccumulators
    /\ effectiveShipConfigRef = ShipBase(defaultShipConfig)
    /\ lastTime = 0
    /\ frame = NoFrame
    /\ loads = 0
    /\ sessionFile = session
    /\ errors = 0
    /\ transients = {}
    /\ freshRun = FreshStart

\* Math.random() values of a frame in which no random draw matters.
MidRandom == [density |-> 500, interval |-> 500, arp |-> 500, duration |-> 500]

\* ------------------------------------------------------------------------
\* Specification Spec: flight over the collidable planet.  Frames arrive
\* 50 ms or 250 ms apart (dt is clamped to 100 ms), the distance field
\* returns values on both sides of both thresholds, for the default
\* thresholds and for a wide pair; the forward key is pressed (building the
\* audio graph) and released.
\* ------------------------------------------------------------------------
FlightSessions ==
    { Session("1", emptyControlConfig, defaultSoundConfig, defaultShipConfig, 2, 20),
      Session("1", emptyControlConfig, defaultSoundConfig, defaultShipConfig, 10, 110) }

FlightAdvances == {50, 250}
FlightDistances == {5, 10, 11, 58, 59, 60, 110}

Init == \E session \in FlightSessions : Booted(session, 16, TRUE)

Frame ==
    /\ frame.n < MaxFrames
    /\ \E adv \in FlightAdvances, dist \in FlightDistances :
          gameLoop(adv, dist, MidRandom)

PressForward == "w" \notin keysPressed /\ pressKey("W", "running", "none")
ReleaseForward == "w" \in keysPressed /\ releaseKey("W")

Next == Frame \/ PressForward \/ ReleaseForward

Spec == Init /\ [][Next]_vars

\* A frame has just run (the step is a call of gameLoop).
FrameStep == frame'.n = frame.n + 1

\* C1 - collision veto: in a collidable session, a frame whose proposed
\* position is closer to the surface than the red threshold leaves the
\* camera position as it was before the frame, in all three components, and
\* ends with the camera velocity exactly (0, 0, 0).
C1_CollisionVeto ==
    [][(FrameStep /\ frame'.collidable /\ frame'.dist < frame'.red)
         => /\ cameraRef'.position = cameraRef.position
            /\ cameraVelocityRef' = <<0, 0, 0>>]_vars

\* A colliding frame whose proposed position was another position than the
\* one the camera kept.
C1_Witness ==
    /\ frame.n > 0 /\ frame.collidable /\ frame.dist < frame.red
    /\ frame.proposed # cameraRef.position
    /\ cameraVelocityRef = <<0, 0, 0>>

\* C2 - collision classification is a function of the frame's distance d
\* and the two thresholds only, whatever the previous collision state:
\* d < red gives 'colliding' with proximity 1.0; red <= d < yellow gives
\* 'approaching' with proximity clamp(1 - (d - red)/(yellow - red), 0, 1);
\* otherwise 'none' with proximity 0.
C2_Classification ==
    (frame.n > 0 /\ frame.collidable) =>
        LET d == frame.dist
            red == frame.red
            yellow == frame.yellow
        IN  /\ d < red =>
                 frame.newState = "colliding" /\ frame.newProximity = U
            /\ (red <= d /\ d < yellow) =>
                 /\ frame.newState = "approaching"
                 /\ frame.newProximity =
                       Max2(0, Min2(U, U - ((d - red) * U) \div (yellow - red)))
            /\ (red <= d /\ yellow <= d) =>
                 frame.newState = "none" /\ frame.newProximity = 0
            /\ collisionStateRef = frame.newState

\* A frame that followed a colliding frame and was classified approaching,
\* part of the way between the thresholds.
C2_Witness ==
    /\ frame.n > 1 /\ frame.collidable
    /\ frame.prevState = "colliding" /\ frame.newState = "approaching"
    /\ frame.newProximity > 0 /\ frame.newProximity < U

\* C3 - proximity monotonicity: with red < yellow fixed, over consecutive
\* frames whose distance does not increase the published proximity
\* (collisionProximityRef) does not decrease; it is exactly 1.0 on every
\* frame with distance <= red and exactly 0.0 on every frame with
\* distance >= yellow.
C3_ProximityMonotone ==
    [][(FrameStep /\ frame'.collidable /\ frame'.red < frame'.yellow)
         => /\ (/\ frame.n > 0 /\ frame.collidable
                /\ frame.red = frame'.red /\ frame.yellow = frame'.yellow
                /\ frame'.dist <= frame.dist)
                  => collisionProximityRef' >= collisionProximityRef
            /\ frame'.dist <= frame'.red => collisionProximityRef' = U
            /\ frame'.dist >= frame'.yellow => collisionProximityRef' = 0]_vars

\* A closer frame whose proximity rose by less than the dead band, so that
\* the published value is the older, smaller one.
C3_Witness ==
    /\ frame.n > 1 /\ frame.collidable /\ frame.red < frame.yellow
    /\ collisionProximityRef > 0
    /\ frame.newProximity > collisionProximityRef

\* ------------------------------------------------------------------------
\* Specification SoundSpec: the collision sound.  Frames arrive 250 ms or
\* 600 ms apart over a surface that is either inside the red threshold or
\* far away; a key press builds the audio graph, the sound switch is turned
\* off and on again (the cleanup effect and the zero-delay timer rebuild the
\* graph).
\* ------------------------------------------------------------------------
\* The default sound with the three sequenced instruments switched off.
QuietSound ==
    [defaultSoundConfig EXCEPT !.melody.enabled = FALSE,
                               !.arp.enabled = FALSE,
                               !.rhythm.enabled = FALSE]

SoundSessions ==
    { Session("1", emptyControlConfig, QuietSound, defaultShipConfig, 10, 110) }

SoundAdvances == {250, 600}
SoundDistances == {5, 200}

SoundInit == \E session \in SoundSessions : Booted(session, 16, TRUE)

SoundFrame ==
    /\ frame.n < MaxSoundFrames
    /\ \E adv \in SoundAdvances, dist \in SoundDistances :
          gameLoop(adv, dist, MidRandom)

SoundPress == "m" \notin keysPressed /\ pressKey("m", "running", "none")

SoundOff == soundConfig.enabled /\ handleSoundConfigChange(<<"enabled">>, FALSE)

SoundOn ==
    /\ ~soundConfig.enabled /\ timers < MaxTimers
    /\ handleSoundConfigChange(<<"enabled">>, TRUE)

SoundTimer == runInitAudioTimer("running", "none")

SoundEffects == runEffects

SoundNext ==
    SoundFrame \/ SoundPress \/ SoundOff \/ SoundOn \/ SoundTimer \/ SoundEffects

SoundSpec == SoundInit /\ [][SoundNext]_vars

SchedSessions ==
    { Session("1", emptyControlConfig, defaultSoundConfig, defaultShipConfig, 2, 20) }

SchedAdvances == {50, 400, 2000}
SchedRandoms ==
    { [density |-> d, interval |-> 500, arp |-> 500, duration |-> 500] : d \in {100, 900} }

SchedInit == \E session \in SchedSessions : Booted(session, 16, TRUE)

SchedFrame ==
    /\ frame.n < MaxSchedFrames
    /\ \E adv \in SchedAdvances, rnd \in SchedRandoms : gameLoop(adv, 200, rnd)

SchedPress == "m" \notin keysPressed /\ pressKey("m", "running", "none")

SchedNext == SchedFrame \/ SchedPress

SchedSpec == SchedInit /\ [][SchedNext]_vars

\* C5 - scheduler lookahead: an event of the melody, the arp or the rhythm
\* is fired in a frame only when audioNow >= nextEventTime - 0.1, and the
\* play time handed to the synthesizer is max(audioNow, nextEventTime);
\* so, however long the loop stalled, no event gets a play time earlier
\* than the audio clock at the moment it is fired.
C5_Lookahead ==
    \A e \in frame.events :
        /\ frame.audioNow >= e.due - 100
        /\ e.time >= frame.audioNow
        /\ e.time >= e.due
        /\ e.time \in {frame.audioNow, e.due}

\* After a stall the audio clock is more than 0.2 s past an event's
\* scheduled time when the event is fired, and another event of the same
\* frame is fired ahead of its time.
C5_Witness ==
    /\ \E e \in frame.events :
          frame.audioNow > e.due + 200 /\ e.time = frame.audioNow
    /\ \E e \in frame.events :
          frame.audioNow < e.due /\ e.time = e.due

\* ------------------------------------------------------------------------
\* Specification ArpSpec: the arpeggiator.  The session's sound has the arp
\* alone among the sequenced instruments, one octave of the eight-note
\* dorian scale (totalNotes = 8), direction 'updown' and no modulation; a
\* key press builds the graph and frames arrive 125 ms or 250 ms apart, the
\* arp's interval being 250 ms.
\* ------------------------------------------------------------------------
ArpSound ==
    [defaultSoundConfig EXCEPT !.melody.enabled = FALSE,
                               !.rhythm.enabled = FALSE,
                               !.arp.octaves = 1000,
                               !.arp.direction = "updown",
                               !.modulations = << >>]

ArpSessions ==
    { Session("1", emptyControlConfig, ArpSound, defaultShipConfig, 2, 20) }

ArpAdvances == {125, 250}

ArpInit == \E session \in ArpSessions : Booted(session, 16, TRUE)

ArpFrame ==
    /\ frame.n < MaxArpSteps
    /\ \E adv \in ArpAdvances : gameLoop(adv, 200, MidRandom)

ArpPress == "m" \notin keysPressed /\ pressKey("m", "running", "none")

ArpNext == ArpFrame \/ ArpPress

ArpSpec == ArpInit /\ [][ArpNext]_vars

\* The k-th index of 0,1,2,...,7,6,5,...,1,0,1,... (k from 1).
UpDownIndex(k) ==
    LET pos == (k - 1) % 14
    IN  IF pos <= 7 THEN pos ELSE 14 - pos

\* C6 - arp up-down sequence: from arpIndex = 0 with internal direction up,
\* direction 'updown', no override and totalNotes = 8, the note indices
\* used by successive arp firings are 0,1,2,...,7,6,5,...; the internal
\* direction flips exactly at 0 and at 7, and the index never leaves [0,7].
C6_ArpSequence ==
    \A e \in frame.events :
        e.kind = "arp" =>
            /\ e.index = UpDownIndex(frame.arps)
            /\ e.index \in 0..7
            /\ e.index = 7 => arpInternalDirectionRef = -1
            /\ e.index = 0 => arpInternalDirectionRef = 1

\* ------------------------------------------------------------------------
\* Specification DetSpec: runs of the camera physics.  The forward and the
\* right-turn keys are pressed and released, frames arrive 50 ms apart far
\* from the surface, and the session is applied again in mid-flight.
\* ------------------------------------------------------------------------
DetSessions ==
    { Session("1", emptyControlConfig, QuietSound, defaultShipConfig, 2, 20) }

DetKeys == {"w", "ArrowRight"}

DetInit == \E session \in DetSessions : Booted(session, 16, FALSE)

DetFrame ==
    /\ frame.n < MaxDetFrames
    /\ gameLoop(50, 200, MidRandom)

DetPress ==
    \E key \in DetKeys : ToLowerCase(key) \notin keysPressed /\ pressKey(key, "running", "none")

DetRelease ==
    \E key \in DetKeys : ToLowerCase(key) \in keysPressed /\ releaseKey(key)

DetLoad == frame.n > 0 /\ \E session \in DetSessions : loadSession(session)

DetNext == DetFrame \/ DetPress \/ DetRelease \/ DetLoad

DetSpec == DetInit /\ [][DetNext]_vars

\* C9 - physics determinism: a run that begins with a session being applied
\* produces, frame by frame, the camera (position, rotation, roll) of every
\* other run that begins with the session applied and receives the same dt,
\* held keys and ControlConfig, whatever motion took place before the
\* session was applied.
C9_Determinism == cameraRef = freshRun.camera

\* ------------------------------------------------------------------------
\* Specification RouterSpec: the two modulation routers.  The session file
\* carries a list of up to MaxMods modulations, routed to two audio targets
\* and to two ship targets, each enabled or not, with amount 0 or 0.5,
\* driven by the speed or by the acceleration (which is not finite on a
\* first frame that already moves).  The forward key builds the graph and
\* sets the ship moving.
\* ------------------------------------------------------------------------
RouterAudioTargets == <<"drone.filter", "arp.speed">>
RouterShipTargets == <<"fold1", "twist">>

RouterChoices ==
    [enabled : BOOLEAN, source : {"speed", "acceleration"},
     slot : {1, 2}, amount : {0, 500}]

RouterLists == UNION { [1..n -> RouterChoices] : n \in 0..MaxMods }

RouterMods(list, targets) ==
    [i \in 1..Len(list) |->
        Mod("m", list[i].enabled, list[i].source, targets[list[i].slot],
            list[i].amount)]

RouterSessions ==
    { Session("1", emptyControlConfig,
              [QuietSound EXCEPT !.modulations = RouterMods(list, RouterAudioTargets)],
              [defaultShipConfig EXCEPT !.modulations = RouterMods(list, RouterShipTargets)],
              2, 20) : list \in RouterLists }

RouterInit == \E session \in RouterSessions : Booted(session, 16, TRUE)

RouterFrame ==
    /\ frame.n < MaxRouterFrames
    /\ gameLoop(50, 200, MidRandom)

RouterPress == "w" \notin keysPressed /\ pressKey("W", "running", "none")

RouterNext == RouterFrame \/ RouterPress

RouterSpec == RouterInit /\ [][RouterNext]_vars

\* A modulation list that must leave every target at its base value.
Inert(mods) ==
    \/ Len(mods) = 0
    \/ \A i \in 1..Len(mods) : ~mods[i].enabled
    \/ \A i \in 1..Len(mods) : mods[i].amount = 0

FiniteTelemetry == \A src \in DOMAIN audioInputsRef : Finite(audioInputsRef[src])

\* C7 - router identity: for the audio router and the ship-geometry router
\* alike, when the modulation list is empty, or every modulation is
\* disabled, or every modulation has amount 0, the routed value of every
\* target equals its base value from the current config, for every
\* telemetry record with finite values.
C7_RouterIdentity ==
    (frame.n > 0 /\ FiniteTelemetry) =>
        /\ (frame.routed /\ Inert(soundConfigRef.modulations)) =>
              /\ audioTargetAccumulatorsRef["drone.filter"] = soundConfigRef.drone.filter
              /\ audioTargetAccumulatorsRef["arp.speed"] = soundConfigRef.arp.speed
              /\ audioTargetAccumulatorsRef = AudioBase(soundConfigRef)
        /\ Inert(shipConfigRef.modulations) =>
              /\ effectiveShipConfigRef.fold1 = shipConfigRef.fold1
              /\ effectiveShipConfigRef.twist = shipConfigRef.twist
              /\ effectiveShipConfigRef = ShipBase(shipConfigRef)

\* Both routers have run over two disabled modulations of amount 0.5 while
\* the ship moves with a finite acceleration.
C7_Witness ==
    /\ frame.n > 0 /\ frame.routed /\ FiniteTelemetry
    /\ audioInputsRef.speed > 0 /\ audioInputsRef.acceleration # 0
    /\ Len(soundConfigRef.modulations) >= 2
    /\ \A i \in 1..Len(soundConfigRef.modulations) :
          /\ ~soundConfigRef.modulations[i].enabled
          /\ soundConfigRef.modulations[i].amount # 0
    /\ Len(shipConfigRef.modulations) >= 2
    /\ audioTargetAccumulatorsRef = AudioBase(soundConfigRef)

\* Every reordering of a list.
Perms(list) ==
    { [i \in 1..Len(list) |-> list[f[i]]] :
        f \in { g \in [1..Len(list) -> 1..Len(list)] :
                  \A i, j \in 1..Len(list) : i # j => g[i] # g[j] } }

\* The members of a list at the positions in keep, in the list's order.
RECURSIVE Pick(_, _, _)
Pick(list, keep, i) ==
    IF i > Len(list) THEN << >>
    ELSE IF i \in keep THEN <<list[i]>> \o Pick(list, keep, i + 1)
    ELSE Pick(list, keep, i + 1)

TargetsOf(mods) == { mods[i].target : i \in 1..Len(mods) }

\* The per-target merge of two routings: a target takes the result of the
\* list that names it.
Merged(a, b, amods) ==
    [t \in DOMAIN a |-> IF t \in TargetsOf(amods) THEN a[t] ELSE b[t]]

\* base + the sum, over the enabled modulations on target t taken from the
\* last to the first, of telemetry[source] * amount * range[t].
RECURSIVE SumOver(_, _, _, _, _)
SumOver(mods, i, t, inputs, ranges) ==
    IF i = 0 THEN 0
    ELSE IF mods[i].enabled /\ mods[i].target = t
    THEN FAdd(Contribution(mods[i], inputs, ranges),
              SumOver(mods, i - 1, t, inputs, ranges))
    ELSE SumOver(mods, i - 1, t, inputs, ranges)

\* The three statements of the claim for one router: base is the base
\* record, mods the list, out the routed output.
Additive(base, mods, inputs, ranges, out) ==
    /\ \A p \in Perms(mods) : RouteFrom(base, p, 1, inputs, ranges) = out
    /\ \A keep \in SUBSET (1..Len(mods)) :
          LET a == Pick(mods, keep, 1)
              b == Pick(mods, (1..Len(mods)) \ keep, 1)
          IN  TargetsOf(a) \cap TargetsOf(b) = {} =>
                 /\ RouteFrom(base, a \o b, 1, inputs, ranges) = out
                 /\ Merged(RouteFrom(base, a, 1, inputs, ranges),
                           RouteFrom(base, b, 1, inputs, ranges), a) = out
    /\ \A t \in DOMAIN base :
          out[t] = FAdd(base[t], SumOver(mods, Len(mods), t, inputs, ranges))

AudioSessions ==
    { Session(id, emptyControlConfig, QuietSound, defaultShipConfig, 2, 20) :
        id \in {"1", "2"} }

ContextStates == {"running", "suspended"}

AudioInit ==
    \E session \in AudioSessions, hasAudioClass \in BOOLEAN :
        Booted(session, 16, hasAudioClass)

AudioPress == \E startState \in ContextStates : pressKey("m", startState, "none")

AudioRelease == "m" \in keysPressed /\ releaseKey("m")

AudioOff == soundConfig.enabled /\ handleSoundConfigChange(<<"enabled">>, FALSE)

AudioOn ==
    /\ ~soundConfig.enabled /\ timers < MaxTimers
    /\ handleSoundConfigChange(<<"enabled">>, TRUE)

AudioTimer == \E startState \in ContextStates : runInitAudioTimer(startState, "none")

AudioLoad == \E session \in AudioSessions : loadSession(session)

AudioEffects == runEffects

AudioNext ==
    \/ AudioPress \/ AudioRelease \/ AudioOff \/ AudioOn \/ AudioTimer
    \/ AudioLoad \/ AudioEffects

AudioSpec == AudioInit /\ [][AudioNext]_vars

\* The contexts constructed and not yet asked to close.
Unreleased == { i \in 1..Len(contexts) : contexts[i] # "closed" }

\* At most one context is unreleased, and it is the held one.
OneGraph ==
    /\ Cardinality(Unreleased) <= 1
    /\ Unreleased \subseteq {audioContextRef}
    /\ audioContextRef = NULL => audioNodesRef = NoNodes

\* C10 - at most one audio graph is held at any time: a new context is
\* constructed only when audioContextRef is null; a held context is only
\* dropped with close() requested on it and both audioContextRef and
\* audioNodesRef cleared; no graph is constructed while an earlier one is
\* still unreleased.
C10_OneAudioGraph ==
    [][/\ OneGraph /\ OneGraph'
       /\ Len(contexts') > Len(contexts) =>
             /\ audioContextRef = NULL
             /\ Unreleased = {}
             /\ Len(contexts') = Len(contexts) + 1
             /\ audioContextRef' = Len(contexts')
       /\ (audioContextRef # NULL /\ audioContextRef' # audioContextRef) =>
             /\ contexts'[audioContextRef] = "closed"
             /\ audioContextRef' = NULL
             /\ audioNodesRef' = NoNodes]_vars

\* A second graph is held after the first one was released.
C10_Witness ==
    /\ Len(contexts) = 2
    /\ contexts[1] = "closed" /\ contexts[2] # "closed"
    /\ audioContextRef = 2 /\ audioNodesRef # NoNodes

\* Nothing is pending: the effects of the latest render and every zero-delay
\* timer have run.
Settled == ~EffectsPending /\ timers = 0

\* C11 - an audio graph exists only while the session is the audio-capable
\* session and sound is enabled: once pending effects and zero-delay timers
\* have run, audioContextRef is non-null only if the current session id is
\* '1' and soundConfig.enabled is true.
C11_GraphOnlyWhenAudible ==
    (Settled /\ audioContextRef # NULL) =>
        (currentSessionId = "1" /\ soundConfig.enabled)

\* ------------------------------------------------------------------------
\* Specification SessionSpec: saved sessions.  Custom modulations are added
\* and switched off in the sound panel, the session is saved to a file and
\* the file is loaded again.  Every render's effects run before the next
\* event is handled.
\* ------------------------------------------------------------------------
\* The ids uuidv4() hands out.
CustomIds == {"u1", "u2", "u3", "u4"}

\* The modulations the panel adds: its own button's, and a generated one
\* with a negative amount.
CustomChoices ==
    { [id |-> "new", enabled |-> TRUE, source |-> "speed",
       target |-> "drone.filter", amount |-> 250],
      [id |-> "new", enabled |-> TRUE, source |-> "pitch",
       target |-> "arp.speed", amount |-> -100] }

\* The edit of a row: its checkbox is cleared.
CustomEdits == { [enabled |-> FALSE] }

SessionSessions ==
    { Session("1", emptyControlConfig, [QuietSound EXCEPT !.modulations = << >>],
              defaultShipConfig, 2, 20) }

SessionInit == \E session \in SessionSessions : Booted(session, 16, FALSE)

IdsOf(mods) == { mods[i].id : i \in 1..Len(mods) }

\* The id uuidv4() returns: one that no modulation of the list has.
FreshId(mods) ==
    CHOOSE id \in CustomIds \ IdsOf(mods) : TRUE

SessionAdd ==
    /\ Settled
    /\ Cardinality(IdsOf(soundConfig.modulations) \cap CustomIds) < MaxCustomMods
    /\ CustomIds \ IdsOf(soundConfig.modulations) # {}
    /\ \E mod \in CustomChoices :
          addSoundModulation(mod, FreshId(soundConfig.modulations))

SessionUpdate ==
    /\ Settled
    /\ \E id \in IdsOf(soundConfig.modulations) \cap CustomIds, edit \in CustomEdits :
          updateSoundModulation(id, edit)

\* handleSaveSessionToFile, then the file picked in handleFileChange.
SessionSaveLoad ==
    /\ Settled
    /\ handleFileChange(JsonStringify(getSessionState))

SessionEffects == runEffects

SessionNext ==
    SessionAdd \/ SessionUpdate \/ SessionSaveLoad \/ SessionEffects

SessionSpec == SessionInit /\ [][SessionNext]_vars

\* A session object has just been applied.
LoadStep == loads' = loads + 1

\* The file applied last is the store as it was saved.
RoundTripped ==
    /\ loads > 0
    /\ sessionFile.has = getSessionState.has
    /\ sessionFile.soundConfig = soundConfig
    /\ sessionFile.shipConfig = shipConfig

\* C12 - save/load round trip of modulations: getSessionState followed by
\* JSON serialize, JSON parse and applySessionState yields a soundConfig
\* whose modulation list has the same length and order and, entry by entry,
\* identical source, target, amount and enabled values.
C12_RoundTrip ==
    [][SessionSaveLoad =>
         /\ Len(soundConfig'.modulations) = Len(soundConfig.modulations)
         /\ \A i \in 1..Len(soundConfig.modulations) :
               /\ soundConfig'.modulations[i].source = soundConfig.modulations[i].source
               /\ soundConfig'.modulations[i].target = soundConfig.modulations[i].target
               /\ soundConfig'.modulations[i].amount = soundConfig.modulations[i].amount
               /\ soundConfig'.modulations[i].enabled = soundConfig.modulations[i].enabled]_vars

\* A saved file with three custom modulations and no other, one of them
\* disabled and one with a negative amount below one unit, has been loaded.
C12_Witness ==
    /\ RoundTripped
    /\ IdsOf(soundConfig.modulations) \subseteq CustomIds
    /\ Len(soundConfig.modulations) = 3
    /\ \E i \in 1..3 : ~soundConfig.modulations[i].enabled
    /\ \E i \in 1..3 : soundConfig.modulations[i].amount = -100

\* ------------------------------------------------------------------------
\* Specification FileSpec: session files with optional fields missing are
\* loaded, between moves of the collision panel's two sliders.
\* ------------------------------------------------------------------------
\* A session object that holds the keys in has only.
File(has, sound, ship, red, yellow) ==
    [Session("1", emptyControlConfig, sound, ship, red, yellow) EXCEPT !.has = has]

\* Files with optional fields missing: an empty object but for its id; a
\* sound and a ship config of one key each and no thresholds; thresholds and
\* an instrument of one key with an empty modulation list; a complete sound
\* config but for its modulation list.
PartialFiles ==
    { File({"sessionId"}, EmptyObject, EmptyObject, 0, 0),
      File({"sessionId", "soundConfig", "shipConfig"},
           [enabled |-> FALSE], [fold1 |-> 500], 0, 0),
      File({"sessionId", "soundConfig", "collisionThresholdRed",
            "collisionThresholdYellow"},
           [drone |-> [gain |-> 100], modulations |-> << >>], EmptyObject, 5, 50),
      File({"sessionId", "soundConfig", "shipConfig"},
           [f \in DOMAIN defaultSoundConfig \ {"modulations"} |-> defaultSoundConfig[f]],
           defaultShipConfig, 0, 0) }

\* Positions of the red and of the yellow slider.
FileReds == {1, 100}
FileYellows == {110, 200}

FileSessions ==
    { Session("1", emptyControlConfig, defaultSoundConfig, defaultShipConfig, 2, 20) }

FileInit == \E session \in FileSessions : Booted(session, 16, FALSE)

FileLoad == \E file \in PartialFiles : handleFileChange(JsonStringify(file))

FileRed == \E value \in FileReds : setCollisionThresholdRed(value)

FileYellow == \E value \in FileYellows : setCollisionThresholdYellow(value)

FileEffects == runEffects

FileNext == FileLoad \/ FileRed \/ FileYellow \/ FileEffects

FileSpec == FileInit /\ [][FileNext]_vars

\* The loaded object carries no modulation list for the sound config.
NoSoundList(file) ==
    "soundConfig" \notin file.has \/ "modulations" \notin DOMAIN file.soundConfig
NoShipList(file) ==
    "shipConfig" \notin file.has \/ "modulations" \notin DOMAIN file.shipConfig

\* C13 - loading a session object with missing optional fields yields the
\* documented defaults: collisionThresholdRed = 0.002 and
\* collisionThresholdYellow = 0.02 when absent, and an empty modulation list
\* for the sound config and for the ship config whenever the loaded data
\* carries no modulation list.
C13_LoadDefaults ==
    [][LoadStep =>
         /\ "collisionThresholdRed" \notin sessionFile'.has
               => collisionThresholdRed' = 2
         /\ "collisionThresholdYellow" \notin sessionFile'.has
               => collisionThresholdYellow' = 20
         /\ NoSoundList(sessionFile') => soundConfig'.modulations = << >>
         /\ NoShipList(sessionFile') => shipConfig'.modulations = << >>]_vars


\* ------------------------------------------------------------------------
\* Specification ShipSpec: the ship geometry modulator.  The session's ship
\* config carries up to MaxMods modulations, driven by the pitch (constant
\* and not zero while no pitch key is held) or by the speed, aimed at the
\* field fold1 or at 'wings', which is no field of the config; the ship
\* panel moves the fold1 slider, the forward key sets the ship moving.
\* ------------------------------------------------------------------------
ShipChoices ==
    [enabled : BOOLEAN, source : {"pitch", "speed"}, target : {"fold1", "wings"}]

ShipLists == UNION { [1..n -> ShipChoices] : n \in 0..MaxMods }

ShipMods(list) ==
    [i \in 1..Len(list) |->
        Mod("m", list[i].enabled, list[i].source, list[i].target, 500)]

ShipSessions ==
    { Session("2", emptyControlConfig, QuietSound,
              [defaultShipConfig EXCEPT !.modulations = ShipMods(list)], 2, 20) :
        list \in ShipLists }

ShipInit == \E session \in ShipSessions : Booted(session, 16, FALSE)

ShipFrame ==
    /\ frame.n < MaxShipFrames
    /\ gameLoop(50, 200, MidRandom)

ShipPress == "w" \notin keysPressed /\ pressKey("w", "running", "none")

ShipSlider ==
    /\ ~EffectsPending /\ shipConfig.fold1 # 500
    /\ handleShipConfigChange("fold1", 500)

ShipEffects == runEffects

ShipNext == ShipFrame \/ ShipPress \/ ShipSlider \/ ShipEffects

ShipSpec == ShipInit /\ [][ShipNext]_vars

\* The fields of the effective ship parameters.
ShipFields == DOMAIN defaultShipConfig \ {"modulations"}

\* The enabled modulations of a list read the same values in both records.
SameDrive(mods, a, b) ==
    \A i \in 1..Len(mods) :
        mods[i].enabled =>
            InputOrZero(a, mods[i].source) = InputOrZero(b, mods[i].source)

\* C14 - ship geometry modulator: every frame the effective ship parameters
\* are rebuilt from the current base ShipConfig, never from the previous
\* frame's effective values: each field is its base value plus the
\* contributions of the enabled modulations aimed at it; with the base, the
\* modulations and the telemetry they read unchanged since the previous
\* frame the effective values are those of the previous frame; no frame
\* changes the base ShipConfig or its modulation list; and enabled
\* modulations aimed at no field of the config change nothing.
C14_ShipModulator ==
    [][FrameStep =>
         LET base == shipConfigRef
             mods == shipConfigRef.modulations
             out == effectiveShipConfigRef'
         IN  /\ shipConfigRef' = base /\ shipConfig' = shipConfig
             /\ DOMAIN out = ShipFields
             /\ \A f \in ShipFields :
                   out[f] = FAdd(base[f],
                                 SumOver(mods, Len(mods), f, audioInputsRef',
                                         SHIP_MOD_RANGES))
             /\ (/\ frame.n > 0 /\ frame.ship = base
                 /\ SameDrive(mods, audioInputsRef, audioInputsRef'))
                   => out = effectiveShipConfigRef
             /\ (\A i \in 1..Len(mods) :
                    mods[i].enabled => mods[i].target \notin ShipFields)
                   => \A f \in ShipFields : out[f] = base[f]]_vars

\* A third frame in a row has moved fold1 off its base by the constant
\* pitch, beside an enabled modulation aimed at no field.
C14_Witness ==
    /\ frame.n >= 3 /\ frame.ship = shipConfigRef
    /\ Len(shipConfigRef.modulations) = 2
    /\ \E i, j \in 1..2 :
          /\ shipConfigRef.modulations[i].enabled
          /\ shipConfigRef.modulations[i].source = "pitch"
          /\ shipConfigRef.modulations[i].target = "fold1"
          /\ shipConfigRef.modulations[j].enabled
          /\ shipConfigRef.modulations[j].target = "wings"
    /\ effectiveShipConfigRef.fold1 # shipConfigRef.fold1
    /\ effectiveShipConfigRef.fold1 =
          shipConfigRef.fold1
            + MulU(MulU(audioInputsRef.pitch, 500), SHIP_MOD_RANGES.fold1)

\* ------------------------------------------------------------------------
\* Specification ForwardSpec: forward flight.  ControlConfig = {}, the
\* camera at its initial pose and at rest, a session without a collision
\* surface.  The forward key is pressed and held; frames arrive 100 ms or
\* 250 ms apart (dt is 0 in the first frame and 100 ms afterwards).
\* ------------------------------------------------------------------------
ForwardSessions ==
    { Session("2", emptyControlConfig, QuietSound, defaultShipConfig, 2, 20) }

ForwardAdvances == {100, 250}

ForwardInit == \E session \in ForwardSessions : Booted(session, 16, FALSE)

ForwardFrame ==
    /\ frame.n < MaxForwardFrames
    /\ "w" \in keysPressed \/ frame.n < MaxRestFrames
    /\ \E adv \in ForwardAdvances : gameLoop(adv, 200, MidRandom)

ForwardPress == "w" \notin keysPressed /\ pressKey("w", "running", "none")

ForwardNext == ForwardFrame \/ ForwardPress

ForwardSpec == ForwardInit /\ [][ForwardNext]_vars

\* C15 - forward flight: from the initial pose at rest, with the default
\* controls and no collision surface, every frame with only the forward key
\* held leaves position.z no smaller, and greater when dt > 0; keeps
\* velocity.y at 0; and moves velocity.z toward the target forward velocity
\* 1.0, never down and never above 1.0 (up, while a tenth of the remaining
\* gap is a thousandth at least).
C15_ForwardFlight ==
    [][(FrameStep /\ keysPressed = {"w"}) =>
         /\ cameraRef'.position[3] >= cameraRef.position[3]
         /\ frame'.dt > 0 => cameraRef'.position[3] > cameraRef.position[3]
         /\ cameraVelocityRef'[2] = 0
         /\ cameraVelocityRef'[3] >= cameraVelocityRef[3]
         /\ cameraVelocityRef'[3] <= U
         /\ U - cameraVelocityRef[3] >= 10
               => cameraVelocityRef'[3] > cameraVelocityRef[3]]_vars

\* The forward key has been held for fifty frames and more: velocity.z is
\* within a hundredth of the target and the camera is four units ahead.
C15_Witness ==
    /\ frame.n >= 50 /\ keysPressed = {"w"}
    /\ cameraVelocityRef[3] >= 990 /\ cameraVelocityRef[3] <= U
    /\ cameraVelocityRef[2] = 0
    /\ cameraRef.position[3] > 4 * U


\* ------------------------------------------------------------------------
\* Specification FaultSpec: a host that fails.  Session '1' with sound on
\* and reverb, drone and atmosphere enabled, on a host with or without an
\* AudioContext class.  A key press or the sound switch's timer calls
\* initAudio, and the host lets the AudioContext constructor or a node
\* constructor of one instrument throw, or nothing; frames follow.
\* ------------------------------------------------------------------------
FaultSessions ==
    { Session("1", emptyControlConfig, QuietSound, defaultShipConfig, 2, 20) }

FaultInit ==
    \E session \in FaultSessions, hasAudioClass \in BOOLEAN :
        Booted(session, 16, hasAudioClass)

FaultPress ==
    \E fault \in Faults : "w" \notin keysPressed /\ pressKey("w", "running", fault)

FaultRelease == "w" \in keysPressed /\ releaseKey("w")

FaultOff == soundConfig.enabled /\ handleSoundConfigChange(<<"enabled">>, FALSE)

FaultOn ==
    /\ ~soundConfig.enabled /\ timers < MaxTimers
    /\ handleSoundConfigChange(<<"enabled">>, TRUE)

FaultTimer == \E fault \in Faults : runInitAudioTimer("running", fault)

FaultEffects == runEffects

FaultFrame == frame.n < MaxFaultFrames /\ gameLoop(100, 200, MidRandom)

FaultNext ==
    \/ FaultPress \/ FaultRelease \/ FaultOff \/ FaultOn \/ FaultTimer
    \/ FaultEffects \/ FaultFrame

FaultSpec == FaultInit /\ [][FaultNext]_vars

\* A call of initAudio in this step, from pressKey or from the timer, in
\* which the construction of instrument fault threw.
InstrumentThrew(fault) ==
    /\ Thrown(AudioState, soundConfigRef, hostHasAudio, fault)
    /\ \/ pressKey("w", "running", fault)
       \/ runInitAudioTimer("running", fault)

\* C16 - an error in the construction of one instrument costs that
\* instrument only: after the call the master gain and the nodes of every
\* other enabled instrument are published in audioNodesRef, the failed
\* instrument is not, and the three scheduler clocks are initialized.
C16_InstrumentIsolated ==
    [][\A fault \in Instruments :
         InstrumentThrew(fault) =>
            /\ audioContextRef' # NULL
            /\ audioNodesRef'.masterGain
            /\ ~audioNodesRef'[fault]
            /\ \A i \in Instruments \ {fault} :
                  audioNodesRef'[i] = soundConfigRef[i].enabled
            /\ nextMelodyTimeRef' = audioNow' + 2000
            /\ nextArpTimeRef' = audioNow' + 500
            /\ nextRhythmTimeRef' = audioNow' + 100]_vars


\* A key press in this step called initAudio and no context came of it: the
\* host has no AudioContext class, or its constructor threw.
ContextFailed(fault) ==
    /\ currentSessionIdRef = "1" /\ audioContextRef = NULL
    /\ soundConfigRef.enabled
    /\ ~hostHasAudio \/ fault = "context"
    /\ "w" \notin keysPressed /\ pressKey("w", "running", fault)

\* C17 - a failed construction of the audio context is not fatal: when the
\* host offers no AudioContext, or constructing it fails, audioContextRef
\* and audioNodesRef stay null and the key press that called initAudio is
\* recorded in the held keys; every frame without a context runs physics,
\* collision, telemetry and ship modulation and skips all audio work.
C17_AudioFailureNotFatal ==
    [][/\ \A fault \in {"none", "context"} :
             ContextFailed(fault) =>
                /\ audioContextRef' = NULL /\ audioNodesRef' = NoNodes
                /\ "w" \in keysPressed'
       /\ (FrameStep /\ audioContextRef = NULL) =>
             /\ cameraRef'.position \in {cameraRef.position, frame'.proposed}
             /\ collisionStateRef' = frame'.newState
             /\ audioInputsRef'.time = frame'.timestamp
             /\ effectiveShipConfigRef' = RouteShip(shipConfigRef, audioInputsRef')
             /\ ~frame'.routed /\ frame'.events = {} /\ ~frame'.collisionSound
             /\ audioTargetAccumulatorsRef' = audioTargetAccumulatorsRef
             /\ liveAudioStateRef' = liveAudioStateRef
             /\ nextMelodyTimeRef' = nextMelodyTimeRef
             /\ nextArpTimeRef' = nextArpTimeRef
             /\ nextRhythmTimeRef' = nextRhythmTimeRef]_vars


\* ------------------------------------------------------------------------
\* Specification TurnSpec: turning.  A session without a collision surface,
\* with the default look speed (0.3 rad/s) or a look speed of 100 rad/s read
\* from its file; the left and right arrow keys are pressed and released
\* and frames arrive 100 ms apart, so the yaw goes below 0 and past a full
\* turn either way.
\* ------------------------------------------------------------------------
FastYawControls ==
    [emptyControlConfig EXCEPT !.yawVelocity = 100 * U, !.has = {"yawVelocity"}]

TurnSessions ==
    { Session("2", controls, QuietSound, defaultShipConfig, 2, 20) :
        controls \in {emptyControlConfig, FastYawControls} }

TurnKeys == {"ArrowLeft", "ArrowRight"}

TurnInit == \E session \in TurnSessions : Booted(session, 16, FALSE)

TurnPress ==
    \E key \in TurnKeys :
        ToLowerCase(key) \notin keysPressed /\ pressKey(key, "running", "none")

TurnRelease == \E key \in TurnKeys : ToLowerCase(key) \in keysPressed /\ releaseKey(key)

TurnFrame == frame.n < MaxTurnFrames /\ gameLoop(100, 200, MidRandom)

TurnNext == TurnPress \/ TurnRelease \/ TurnFrame

TurnSpec == TurnInit /\ [][TurnNext]_vars

\* C18 - the heading telemetry of every frame lies in [0, 1), whatever the
\* yaw: positive or negative, within a turn or beyond.
C18_HeadingRange ==
    frame.n > 0 => (audioInputsRef.heading >= 0 /\ audioInputsRef.heading < U)


\* C19 - the telemetry record has no stale field: after every frame each
\* field is the value computed from that frame's state, the proximity field
\* is the proximity the collision test computed for that frame's proposed
\* position, and it lies in [0, 1].
C19_FreshTelemetry ==
    frame.n > 0 =>
        /\ audioInputsRef.speed = Speed(cameraVelocityRef)
        /\ audioInputsRef.altitude = cameraRef.position[2] - INITIAL_CAMERA_POS[2]
        /\ audioInputsRef.descent = -cameraVelocityRef[2] * 2
        /\ audioInputsRef.turning = Abs(cameraAngularVelocityRef[2])
        /\ audioInputsRef.turningSigned = cameraAngularVelocityRef[2]
        /\ audioInputsRef.pitch = TDiv(-cameraRef.rotation[1] * U, PITCH_LIMIT)
        /\ audioInputsRef.time = frame.timestamp
        /\ audioInputsRef.proximity = frame.newProximity
        /\ audioInputsRef.proximity >= 0 /\ audioInputsRef.proximity <= U


\* ------------------------------------------------------------------------
\* Specification SteadySpec: routing over frames.  Session '1' with a list
\* of up to MaxMods sound modulations, each enabled or not, of amount 0.5,
\* driven by the pitch (constant while no look key is held) or by the speed
\* (rising while the forward key is held), aimed at the drone filter or at
\* the arpeggio direction.  A key that moves nothing, or the forward key,
\* builds the graph; the drone filter slider is moved between frames.
\* ------------------------------------------------------------------------
SteadyChoices ==
    [enabled : BOOLEAN, source : {"pitch", "speed"},
     target : {"drone.filter", "arp.direction"}]

SteadyLists == UNION { [1..n -> SteadyChoices] : n \in 0..MaxMods }

SteadyMods(list) ==
    [i \in 1..Len(list) |->
        Mod("m", list[i].enabled, list[i].source, list[i].target, 500)]

SteadySessions ==
    { Session("1", emptyControlConfig,
              [QuietSound EXCEPT !.modulations = SteadyMods(list)],
              defaultShipConfig, 2, 20) : list \in SteadyLists }

SteadyKeys == {"m", "w"}

SteadyInit == \E session \in SteadySessions : Booted(session, 16, TRUE)

SteadyFrame == frame.n < MaxSteadyFrames /\ gameLoop(50, 200, MidRandom)

SteadyPress ==
    \E key \in SteadyKeys : keysPressed = {} /\ pressKey(key, "running", "none")

SteadySlider ==
    /\ ~EffectsPending /\ soundConfig.drone.filter # 250 * U
    /\ handleSoundConfigChange(<<"drone", "filter">>, 250 * U)

SteadyEffects == runEffects

SteadyNext == SteadyFrame \/ SteadyPress \/ SteadySlider \/ SteadyEffects

SteadySpec == SteadyInit /\ [][SteadyNext]_vars

\* C20 - no runaway integration in the audio router: every routed frame
\* starts each target accumulator from the base value of the current sound
\* config ('arp.direction' from 0), so each target ends as that base plus
\* the contributions of the enabled modulations aimed at it, whatever the
\* accumulators held before; with the config, the modulations and the
\* telemetry they read unchanged since the previous routed frame, every
\* target has the value of the previous frame.
C20_NoRunaway ==
    [][(FrameStep /\ frame'.routed) =>
         LET sound == soundConfigRef
             mods == soundConfigRef.modulations
             out == audioTargetAccumulatorsRef'
         IN  /\ DOMAIN out = ModulationTargets
             /\ \A t \in ModulationTargets :
                   out[t] = FAdd(AudioBase(sound)[t],
                                 SumOver(mods, Len(mods), t, audioInputsRef',
                                         MOD_RANGES))
             /\ out["drone.filter"] =
                   FAdd(sound.drone.filter,
                        SumOver(mods, Len(mods), "drone.filter",
                                audioInputsRef', MOD_RANGES))
             /\ out["arp.direction"] =
                   FAdd(0, SumOver(mods, Len(mods), "arp.direction",
                                   audioInputsRef', MOD_RANGES))
             /\ out.masterVolume = sound.masterVolume
             /\ (/\ frame.routed /\ frame.sound = sound
                 /\ SameDrive(mods, audioInputsRef, audioInputsRef'))
                   => out = audioTargetAccumulatorsRef]_vars


\* Three routed frames in a row at rest: the constant pitch has moved the
\* drone filter and the arpeggio direction off their bases, by the same
\* amounts as in the frames before.
C20_Witness ==
    /\ frame.n >= 3 /\ frame.routed /\ frame.audioNow >= 150
    /\ keysPressed = {"m"} /\ frame.sound = soundConfigRef
    /\ Len(soundConfigRef.modulations) = 2
    /\ \E i, j \in 1..2 :
          /\ soundConfigRef.modulations[i].enabled
          /\ soundConfigRef.modulations[i].source = "pitch"
          /\ soundConfigRef.modulations[i].target = "drone.filter"
          /\ soundConfigRef.modulations[j].enabled
          /\ soundConfigRef.modulations[j].source = "pitch"
          /\ soundConfigRef.modulations[j].target = "arp.direction"
    /\ audioInputsRef.pitch # 0
    /\ audioTargetAccumulatorsRef["drone.filter"] # soundConfigRef.drone.filter
    /\ audioTargetAccumulatorsRef["drone.filter"] =
          soundConfigRef.drone.filter
            + MulU(MulU(audioInputsRef.pitch, 500), MOD_RANGES["drone.filter"])
    /\ audioTargetAccumulatorsRef["arp.direction"] =
          MulU(MulU(audioInputsRef.pitch, 500), MOD_RANGES["arp.direction"])
    /\ audioTargetAccumulatorsRef["arp.direction"] # 0


\* ------------------------------------------------------------------------
\* Specification ClockSpec: the scheduler clocks.  Session '1' with the arp
\* and the rhythm both enabled or both disabled in the file, 300 bpm (a
\* beat of 200 ms; the arp, at speed 0.25, steps every 200 ms too) and no
\* melody; with no modulation, or with an acceleration modulation of amount
\* 0 on the tempo.  A key press before the first frame builds the graph;
\* frames arrive 100 ms apart or after a stall of 500 ms; the arp switch
\* or the rhythm switch, one of them at a time, is turned between frames,
\* and the effects of the render run before the next frame.
\* ------------------------------------------------------------------------
ClockSound(on, mods) ==
    [defaultSoundConfig EXCEPT !.melody.enabled = FALSE,
                               !.arp.enabled = on,
                               !.arp.speed = 250,
                               !.arp.octaves = 1000,
                               !.rhythm.enabled = on,
                               !.rhythm.bpm = 300 * U,
                               !.modulations = mods]

ClockModLists ==
    { << >>, << Mod("m", TRUE, "acceleration", "rhythm.bpm", 0) >> }

ClockSessions ==
    { Session("1", emptyControlConfig, ClockSound(on, mods),
              defaultShipConfig, 2, 20) :
        on \in BOOLEAN, mods \in ClockModLists }

ClockAdvances == {100, 500}

ClockKeys == {"m", "w"}

ClockSwitches == {"arp", "rhythm"}

ClockInit == \E session \in ClockSessions : Booted(session, 16, TRUE)

ClockFrame ==
    /\ frame.n < MaxClockFrames /\ ~EffectsPending
    /\ \E adv \in ClockAdvances : gameLoop(adv, 200, MidRandom)

ClockPress ==
    /\ frame.n = 0 /\ keysPressed = {}
    /\ \E key \in ClockKeys : pressKey(key, "running", "none")

ClockSwitch ==
    /\ ~EffectsPending
    /\ \E inst \in ClockSwitches :
          /\ \A other \in ClockSwitches \ {inst} :
                soundConfig[other].enabled = sessionFile.soundConfig[other].enabled
          /\ handleSoundConfigChange(<<inst, "enabled">>, ~soundConfig[inst].enabled)

ClockEffects == runEffects

ClockNext == ClockFrame \/ ClockPress \/ ClockSwitch \/ ClockEffects

ClockSpec == ClockInit /\ [][ClockNext]_vars


\* A graph is constructed in this step.
GraphBuilt == Len(contexts') > Len(contexts)

\* The clock next moves as the claim allows in this step: set by initAudio
\* when the graph is built; otherwise left alone unless the frame finds the
\* instrument enabled and its tick due, and then raised by a positive finite
\* interval.
ClockMoves(next, nextAfter, offset, enabled) ==
    IF GraphBuilt THEN nextAfter = audioNow' + offset
    ELSE IF FrameStep /\ frame'.routed /\ enabled /\ Due(frame'.audioNow, next)
    THEN nextAfter # NaN /\ Finite(nextAfter) /\ nextAfter > next
    ELSE nextAfter = next

\* C21 - the scheduler clocks only move forward: nextMelodyTime, nextArpTime
\* and nextRhythmTime change only in a frame where the instrument's tick is
\* due, and then increase by a strictly positive finite interval; they are
\* set to now + 2, now + 0.5 and now + 0.1 by initAudio only.
C21_ClocksForward ==
    [][/\ ClockMoves(nextMelodyTimeRef, nextMelodyTimeRef', 2000,
                     soundConfigRef.melody.enabled)
       /\ ClockMoves(nextArpTimeRef, nextArpTimeRef', 500,
                     soundConfigRef.arp.enabled)
       /\ ClockMoves(nextRhythmTimeRef, nextRhythmTimeRef', 100,
                     soundConfigRef.rhythm.enabled)]_vars


\* A due tick of an instrument in a routed frame: the graph exists, sound is
\* enabled, the instrument is enabled in the config the frame reads and its
\* clock is within the look-ahead.
DueTick(enabled, next) ==
    FrameStep /\ frame'.routed /\ enabled /\ Due(frame'.audioNow, next)
Synthesized(kind) == \E e \in frame'.events : e.kind = kind

\* C22 - Instruments can be enabled at any time: whenever the graph exists,
\* sound is enabled and the arp (the rhythm) is enabled in the current config,
\* each due tick of that instrument synthesizes an event, also when the
\* instrument was disabled when the graph was built and was switched on later
\* through handleSoundConfigChange.
C22_EnabledInstrumentSounds ==
    [][/\ DueTick(soundConfigRef.arp.enabled, nextArpTimeRef) => Synthesized("arp")
       /\ DueTick(soundConfigRef.rhythm.enabled, nextRhythmTimeRef)
              => Synthesized("rhythm")]_vars

\* The same, for instruments that were enabled when the graph was built.
C22_BuiltInstrumentSounds ==
    [][/\ DueTick(soundConfigRef.arp.enabled, nextArpTimeRef) /\ audioNodesRef.arp
              => Synthesized("arp")
       /\ DueTick(soundConfigRef.rhythm.enabled, nextRhythmTimeRef)
              /\ audioNodesRef.rhythm
              => Synthesized("rhythm")]_vars


\* C23 - The rhythm has a fixed cadence: two rhythm hits fired one after the
\* other (here: in two successive frames) get play times that differ by the
\* interval 60/bpm in effect when the earlier one fired, also after the main
\* loop stalled for longer than the interval and after the rhythm was switched
\* off for a while and on again. (A frame fires one rhythm hit at most: the
\* scheduler has one rhythm block per frame.)
C23_FixedCadence ==
    [][FrameStep =>
          \A earlier \in frame.events, later \in frame'.events :
              earlier.kind = "rhythm" /\ later.kind = "rhythm"
                  => later.time = FAdd(earlier.time, RhythmInterval(liveAudioStateRef))]_vars


\* ------------------------------------------------------------------------
\* Specification RangeSpec: the arpeggiator's index under every direction.
\* The session's sound has the arp alone among the sequenced instruments, at
\* two octaves of the eight-note dorian scale (totalNotes = 16), with one of
\* the four directions or none configured, and with no modulation, a
\* modulation of amount 0 from the acceleration onto the octave count, or a
\* modulation from the time onto the direction (an override to 'up' or to
\* 'down').  A key is pressed before the first frame; frames arrive 500 ms
\* apart, so that every frame fires an arp note; between frames the panel
\* changes the octave count (1, 2 or 3) or the scale (eight or seven notes).
\* ------------------------------------------------------------------------
RangeDirections == {"up", "down", "updown", "random", "unset"}

RangeModLists ==
    { << >>,
      << Mod("m", TRUE, "acceleration", "arp.octaves", 0) >>,
      << Mod("m", TRUE, "time", "arp.direction", 1000) >>,
      << Mod("m", TRUE, "time", "arp.direction", -1000) >> }

RangeSound(direction, mods) ==
    [defaultSoundConfig EXCEPT !.melody.enabled = FALSE,
                               !.rhythm.enabled = FALSE,
                               !.rhythm.bpm = 300 * U,
                               !.arp.speed = 250,
                               !.arp.octaves = 2000,
                               !.arp.direction = direction,
                               !.modulations = mods]

RangeSessions ==
    { Session("1", emptyControlConfig, RangeSound(direction, mods),
              defaultShipConfig, 2, 20) :
          direction \in RangeDirections, mods \in RangeModLists }

RangeKeys == {"m", "w"}
RangeOctaves == {1000, 3000}
RangeScales == {"dorian", "phrygian"}
RangeRandoms ==
    { [density |-> 500, interval |-> 500, arp |-> r, duration |-> 500] : r \in {0, 999} }

RangeInit == \E session \in RangeSessions : Booted(session, 16, TRUE)

RangeFrame ==
    /\ frame.n < MaxRangeFrames
    /\ ~EffectsPending
    /\ \E rnd \in RangeRandoms :
          /\ soundConfigRef.arp.direction # "random" => rnd.arp = 0
          /\ gameLoop(500, 200, rnd)

RangePress ==
    /\ frame.n = 0 /\ keysPressed = {}
    /\ \E key \in RangeKeys : pressKey(key, "running", "none")

RangeSlider ==
    /\ frame.n > 0 /\ ~EffectsPending
    /\ \E octaves \in RangeOctaves :
          /\ soundConfig.arp.octaves # octaves
          /\ handleSoundConfigChange(<<"arp", "octaves">>, octaves)

RangeScale ==
    /\ frame.n > 0 /\ ~EffectsPending
    /\ \E scale \in RangeScales :
          /\ soundConfig.melody.scale # scale
          /\ handleSoundConfigChange(<<"melody", "scale">>, scale)

RangeEffects == runEffects

RangeNext == RangeFrame \/ RangePress \/ RangeSlider \/ RangeScale \/ RangeEffects

RangeSpec == RangeInit /\ [][RangeNext]_vars

\* An arp note fired in the step to the next state, with the totalNotes of
\* that firing (playArpNote reads the config ref and the live state the frame
\* has just written).
ArpFired(e) == FrameStep /\ e \in frame'.events /\ e.kind = "arp"
FiredTotalNotes == TotalNotes(frame'.sound, liveAudioStateRef')

\* C24 - The arp index stays in range: for every arp firing, under every
\* direction (up, down, updown, random, or a modulation override) and for any
\* change of the octave count or of the scale between firings, the index that
\* selects the note satisfies 0 <= index <= totalNotes - 1, with totalNotes =
\* scaleLength * max(1, round(arpOctaves)) at that firing.
C24_ArpIndexInRange ==
    [][\A e \in frame'.events :
          ArpFired(e) =>
              /\ FiredTotalNotes # NaN /\ e.index # NaN
              /\ 0 <= e.index /\ e.index <= FiredTotalNotes - 1]_vars

\* The same for firings whose octave count is a number and whose index before
\* the firing is a number.
C24_FiniteArpIndexInRange ==
    [][\A e \in frame'.events :
          ArpFired(e) /\ FiredTotalNotes # NaN /\ arpNoteIndexRef # NaN =>
              /\ e.index # NaN
              /\ 0 <= e.index /\ e.index <= FiredTotalNotes - 1]_vars


\* ------------------------------------------------------------------------
\* Specification DirSpec: the arp's direction override.  The session's sound
\* has the arp alone among the sequenced instruments, two octaves of the
\* dorian scale, one of the four directions or none configured, and one
\* modulation from the proximity onto 'arp.direction' with amount 0.3, -0.3,
\* 0.5 or -0.5.  The distance field returns a distance below the red
\* threshold (proximity 1), between the thresholds (proximity 0.5) or beyond
\* the yellow one (proximity 0), so the routed value is exactly at a
\* threshold, beyond it, or inside the band.  Frames arrive 500 ms apart and
\* every frame after the key press fires an arp note.
\* ------------------------------------------------------------------------
DirAmounts == {300, -300, 500, -500}

DirSessions ==
    { Session("1", emptyControlConfig,
              RangeSound(direction,
                         << Mod("m", TRUE, "proximity", "arp.direction", amount) >>),
              defaultShipConfig, 2, 20) :
          direction \in RangeDirections, amount \in DirAmounts }

DirDistances == {1, 11, 200}

DirInit == \E session \in DirSessions : Booted(session, 16, TRUE)

DirFrame ==
    /\ frame.n < MaxDirFrames
    /\ \E dist \in DirDistances, rnd \in RangeRandoms :
          /\ soundConfigRef.arp.direction # "random" => rnd.arp = 0
          /\ gameLoop(500, dist, rnd)

DirPress ==
    /\ frame.n = 0 /\ keysPressed = {}
    /\ pressKey("m", "running", "none")

DirNext == DirFrame \/ DirPress

DirSpec == DirInit /\ [][DirNext]_vars

\* The routed 'arp.direction' value and the configured direction a firing in
\* the step to the next state reads.
FiredDirMod == audioTargetAccumulatorsRef'["arp.direction"]
FiredStatic ==
    IF frame'.sound.arp.direction = "unset" THEN "updown"
    ELSE frame'.sound.arp.direction
Overridden == FiredDirMod > 300 \/ FiredDirMod < -300

\* C25 - Arp direction override: at each arp firing the effective direction
\* is 'up' when the routed 'arp.direction' value is above 0.3, 'down' when it
\* is below -0.3, and otherwise (also at exactly 0.3 and -0.3) the configured
\* direction, 'updown' when none is configured; the index and the internal
\* direction move as that direction steps, and an override leaves the
\* internal up-down direction as it was.
C25_DirectionOverride ==
    [][\A e \in frame'.events :
          ArpFired(e) /\ FiredDirMod # NaN =>
              LET effective == IF FiredDirMod > 300 THEN "up"
                               ELSE IF FiredDirMod < -300 THEN "down"
                               ELSE FiredStatic
              IN  /\ \E rnd \in RangeRandoms :
                        /\ ArpStep(arpNoteIndexRef, arpInternalDirectionRef,
                                   effective, FiredTotalNotes, rnd.arp)
                              = [index |-> arpNoteIndexRef',
                                 internal |-> arpInternalDirectionRef']
                        /\ e.index = arpNoteIndexRef'
                  /\ Overridden => arpInternalDirectionRef' = arpInternalDirectionRef]_vars

\* An arp note was fired with the routed value exactly at the upper threshold
\* while the configured direction is 'down': the index stepped down from 0 to
\* the last note.
C25_Witness ==
    /\ \E e \in frame.events : e.kind = "arp" /\ e.index = 15
    /\ frame.arps = 1
    /\ audioTargetAccumulatorsRef["arp.direction"] = 300
    /\ frame.sound.arp.direction = "down"


\* ------------------------------------------------------------------------
\* The cleanup timers of synthesized events (the setTimeout at the end of
\* playGenerativeNote, playArpNote, playRhythm and playCollisionSound).
\* ------------------------------------------------------------------------
\* The host runs the cleanup timer that is due first, at its due time or, if
\* that has passed, now; the audio clock of a running context has advanced by
\* the same wall time.  The callback disconnects the event's nodes.
runCleanupTimer ==
    /\ transients # {}
    /\ \E r \in transients :
          /\ \A other \in transients : r.at <= other.at
          /\ clock' = Max2(clock, r.at)
          /\ audioNow' = IF audioContextRef # NULL /\ contexts[audioContextRef] = "running"
                         THEN audioNow + (Max2(clock, r.at) - clock)
                         ELSE audioNow
          /\ transients' = transients \ {r}
    /\ UNCHANGED <<hostHasAudio, contexts, timers, stateVars, configRefs, keysPressed,
                   physVars, collVars, graphVars, seqVars, arpVars, outVars,
                   lastTime, frame, loads, sessionFile, errors, freshRun>>

\* ------------------------------------------------------------------------
\* Specification LifeSpec: the lifetime of synthesized events.  The session's
\* sound has melody, arp and rhythm at 300 bpm and starts enabled or
\* disabled.  With sound enabled a key press builds the graph and resumes the
\* context; with sound disabled the panel's switch enables it and the
\* zero-delay timer builds the graph, in a context the host starts running or
\* suspended.  Frames arrive 100 ms apart or after a stall of 2 s (the first
\* melody note is due 2 s after the graph was built), the distance is below
\* the red threshold or far away, and the host runs every cleanup timer that
\* is due before it delivers the next frame.
\* ------------------------------------------------------------------------
LifeSound(enabled) ==
    [defaultSoundConfig EXCEPT !.enabled = enabled,
                               !.rhythm.bpm = 300 * U,
                               !.arp.speed = 250,
                               !.arp.octaves = 1000,
                               !.modulations = << >>]

LifeSessions ==
    { Session("1", emptyControlConfig, LifeSound(enabled), defaultShipConfig, 2, 20) :
          enabled \in BOOLEAN }

LifeAdvances == {100, 2000}
LifeDistances == {1, 200}
LifeRandoms ==
    { [density |-> 100, interval |-> 500, arp |-> 500, duration |-> d] : d \in {0, 999} }

LifeInit == \E session \in LifeSessions : Booted(session, 16, TRUE)

LifePress ==
    /\ frame.n = 0 /\ keysPressed = {} /\ soundConfigRef.enabled
    /\ \E startState \in ContextStates : pressKey("m", startState, "none")

LifeOn ==
    /\ ~soundConfig.enabled /\ ~EffectsPending /\ frame.n = 0
    /\ handleSoundConfigChange(<<"enabled">>, TRUE)

LifeTimer ==
    /\ ~EffectsPending
    /\ \E startState \in ContextStates : runInitAudioTimer(startState, "none")

LifeEffects == runEffects

LifeFrame ==
    /\ frame.n < MaxLifeFrames
    /\ ~EffectsPending /\ timers = 0
    /\ \E adv \in LifeAdvances, dist \in LifeDistances, rnd \in LifeRandoms :
          /\ \A r \in transients : r.at >= clock + adv
          /\ ~Due(audioNow + adv, nextMelodyTimeRef) => rnd.duration = 0
          /\ gameLoop(adv, dist, rnd)

LifeCleanup == runCleanupTimer

LifeNext ==
    LifePress \/ LifeOn \/ LifeTimer \/ LifeEffects \/ LifeFrame \/ LifeCleanup

LifeSpec == LifeInit /\ [][LifeNext]_vars

\* The cleanup timers that ran in the step to the next state.
Disconnected == transients \ transients'

\* C26 - Transient events clean themselves up: when an event's cleanup timer
\* disconnects its nodes, the audio clock of the event's context has reached
\* the stop time scheduled for its oscillators (for every play time the
\* scheduler passes, audioNow <= time <= audioNow + 0.1 s), and the cleanup
\* disconnects no persistent node of the graph.
C26_CleanupAfterStop ==
    [][\A r \in Disconnected :
          /\ r.ctx = audioContextRef => audioNow' >= r.stop
          /\ r.nodes \cap PersistentNodes = {}]_vars

\* The same for events synthesized into a context that is running.
C26_RunningCleanupAfterStop ==
    [][\A r \in Disconnected :
          /\ r.ctx = audioContextRef /\ contexts[r.ctx] = "running"
                => audioNow' >= r.stop
          /\ r.nodes \cap PersistentNodes = {}]_vars

\* An event waits for its cleanup exactly until its stop time: an arp note or
\* a rhythm hit scheduled the whole look-ahead in advance.
C26_TightCleanup ==
    \E r \in transients :
        /\ r.ctx = audioContextRef /\ contexts[r.ctx] = "running"
        /\ r.stop = audioNow + (r.at - clock)


\* The host's event loop runs every timer that is due.
LifeLiveSpec == LifeSpec /\ WF_vars(runCleanupTimer)

\* Every synthesized event is disconnected in the end.
C26_EventuallyDisconnected == []<>(transients = {})


\* ------------------------------------------------------------------------
\* Specification ModsSpec: the two modulation lists under add, update and
\* remove.  The session has two sound modulations and two ship modulations
\* with distinct ids.  A modulation is added (the object passed carries an
\* id of its own, which the new id replaces), updated by an id that is or is
\* not in the list with one of the partial modulations the rows of the panel
\* send (enabled, source, target or amount), or removed by id.  The panel of
\* one list is used at a time.
\* ------------------------------------------------------------------------
ListIds == {"a", "b", "c"}

ListSound ==
    [QuietSound EXCEPT !.modulations =
        << Mod("a", TRUE, "speed", "drone.filter", 250),
           Mod("b", FALSE, "pitch", "arp.direction", 1000) >>]

ListShip ==
    [defaultShipConfig EXCEPT !.modulations =
        << Mod("a", TRUE, "turningSigned", "asymmetryX", 500),
           Mod("b", TRUE, "speed", "twist", 500) >>]

ListSessions == { Session("1", emptyControlConfig, ListSound, ListShip, 2, 20) }

\* The objects handed to add: their id and enabled flag are replaced.
ListChoices == { Mod(id, FALSE, "speed", "drone.filter", 250) : id \in {"a", "n"} }
ListShipChoices ==
    { Mod(id, FALSE, "turningSigned", "asymmetryX", 500) : id \in {"a", "n"} }

\* The partial modulations of a row: the checkbox, the two selects, the slider.
ListPartials ==
    { [enabled |-> FALSE], [source |-> "time"], [target |-> "drone.filter"],
      [amount |-> 0] }
ListShipPartials ==
    { [enabled |-> FALSE], [source |-> "time"], [target |-> "asymmetryX"],
      [amount |-> 0] }

\* uuidv4(): an id that no modulation of the list has.
FreshIds(mods) == ListIds \ IdsOf(mods)

ModsInit == \E session \in ListSessions : Booted(session, 16, FALSE)

ModsAdd ==
    /\ shipConfig = sessionFile.shipConfig
    /\ Len(soundConfig.modulations) < MaxListLen
    /\ \E mod \in ListChoices, uuid \in FreshIds(soundConfig.modulations) :
          addSoundModulation(mod, uuid)

ModsUpdate ==
    /\ shipConfig = sessionFile.shipConfig
    /\ \E id \in ListIds, partial \in ListPartials : updateSoundModulation(id, partial)

ModsRemove ==
    /\ shipConfig = sessionFile.shipConfig
    /\ \E id \in ListIds : removeSoundModulation(id)

ModsShipAdd ==
    /\ soundConfig = sessionFile.soundConfig
    /\ Len(shipConfig.modulations) < MaxListLen
    /\ \E mod \in ListShipChoices, uuid \in FreshIds(shipConfig.modulations) :
          addShipModulation(mod, uuid)

ModsShipUpdate ==
    /\ soundConfig = sessionFile.soundConfig
    /\ \E id \in ListIds, partial \in ListShipPartials : updateShipModulation(id, partial)

ModsShipRemove ==
    /\ soundConfig = sessionFile.soundConfig
    /\ \E id \in ListIds : removeShipModulation(id)

ModsNext ==
    \/ ModsAdd \/ ModsUpdate \/ ModsRemove
    \/ ModsShipAdd \/ ModsShipUpdate \/ ModsShipRemove

ModsSpec == ModsInit /\ [][ModsNext]_vars

UniqueIds(mods) ==
    \A i, j \in 1..Len(mods) : i # j => mods[i].id # mods[j].id

\* What an add, an update or a remove may do to a list.
ListStep(mods, after) ==
    \* add: one entry more at the end, enabled, with an id no other entry has
    \/ /\ Len(after) = Len(mods) + 1
       /\ SubSeq(after, 1, Len(mods)) = mods
       /\ after[Len(after)].enabled
       /\ after[Len(after)].id \notin IdsOf(mods)
    \* update: same length, order and ids; only the entry with the id changed
    \/ /\ Len(after) = Len(mods)
       /\ \A i \in 1..Len(mods) : after[i].id = mods[i].id
       /\ \E id \in ListIds : \A i \in 1..Len(mods) : mods[i].id # id => after[i] = mods[i]
    \* remove: exactly the entry with the id is gone
    \/ \E id \in IdsOf(mods) : after = SelectSeq(mods, LAMBDA mod : mod.id # id)

ThreshReds == {1, 20, 100}
ThreshYellows == {1, 20, 200}
ThreshDistances == {10, 150}

ThreshSessions ==
    { Session("1", emptyControlConfig, QuietSound, defaultShipConfig, 2, 20) }

ThreshInit == \E session \in ThreshSessions : Booted(session, 16, FALSE)

ThreshRed == \E value \in ThreshReds : setCollisionThresholdRed(value)

ThreshYellow == \E value \in ThreshYellows : setCollisionThresholdYellow(value)

ThreshLoad == loads = 0 /\ \E session \in ThreshSessions : loadSession(session)

ThreshEffects == runEffects

ThreshFrame ==
    /\ frame.n < MaxThreshFrames
    /\ ~EffectsPending
    /\ \E dist \in ThreshDistances : gameLoop(50, dist, MidRandom)

ThreshNext == ThreshRed \/ ThreshYellow \/ ThreshLoad \/ ThreshEffects \/ ThreshFrame

ThreshSpec == ThreshInit /\ [][ThreshNext]_vars

\* C28 - Threshold ordering: in every reachable state, after any sequence of
\* setCollisionThresholdRed and setCollisionThresholdYellow edits from the
\* collision panel and any session load, collisionThresholdRed <
\* collisionThresholdYellow, so that the proximity interpolation never
\* divides by a zero or negative range.
C28_ThresholdOrder ==
    /\ collisionThresholdRed < collisionThresholdYellow
    /\ frame.n > 0 /\ frame.newState = "approaching" => frame.yellow - frame.red > 0

\* The interpolation alone: a frame that interpolates has a positive range.
C28_PositiveRange ==
    frame.n > 0 /\ frame.newState = "approaching" => frame.yellow - frame.red > 0

\* A frame has interpolated the proximity.
C28_Interpolated == frame.n > 0 /\ frame.newState = "approaching"


\* ------------------------------------------------------------------------
\* Specification PitchSpec: the pitch under the arrow keys.  The session has
\* the default pitch velocity or a large one (100), with or without the
\* inverted pitch axis; arrow-up and arrow-down are pressed and released,
\* frames arrive 50 ms or 250 ms apart (dt is clamped to 100 ms), and the
\* session is loaded once more in between.
\* ------------------------------------------------------------------------
FastPitchControls ==
    [emptyControlConfig EXCEPT !.pitchVelocity = 100 * U, !.has = {"pitchVelocity"}]

PitchSessions ==
    { Session("2", controls, QuietSound, defaultShipConfig, 2, 20) :
        controls \in {emptyControlConfig, FastPitchControls} }

PitchKeys == {"ArrowUp", "ArrowDown"}
PitchAdvances == {50, 250}

PitchInit == \E session \in PitchSessions : Booted(session, 16, FALSE)

PitchPress ==
    /\ keysPressed = {}
    /\ \E key \in PitchKeys : pressKey(key, "running", "none")

PitchRelease ==
    /\ frame.n > 1
    /\ \E key \in PitchKeys : ToLowerCase(key) \in keysPressed /\ releaseKey(key)

PitchLoad == loads = 0 /\ frame.n > 1 /\ \E session \in PitchSessions : loadSession(session)

PitchEffects == runEffects

PitchFrame ==
    /\ frame.n < MaxPitchFrames
    /\ ~EffectsPending
    /\ \E adv \in PitchAdvances : gameLoop(adv, 200, MidRandom)

PitchNext == PitchPress \/ PitchRelease \/ PitchLoad \/ PitchEffects \/ PitchFrame

PitchSpec == PitchInit /\ [][PitchNext]_vars

PitchInRange(camera) ==
    /\ -PITCH_LIMIT <= camera.rotation[1] /\ camera.rotation[1] <= PITCH_LIMIT
    /\ -HALF_PI_U <= camera.rotation[1] /\ camera.rotation[1] <= HALF_PI_U

\* C29 - Pitch clamp: after every frame and after every session load, for
\* any sequence of held keys, dt values and pitch velocities, the camera
\* pitch lies within [-1.57, 1.57], hence within [-pi/2, pi/2], and the pitch
\* telemetry of a frame lies within [-1, 1] and has the opposite sign of the
\* stored pitch.
C29_PitchClamp ==
    [][/\ PitchInRange(cameraRef) /\ PitchInRange(cameraRef')
       /\ FrameStep =>
             /\ -U <= audioInputsRef'.pitch /\ audioInputsRef'.pitch <= U
             /\ cameraRef'.rotation[1] > 0 => audioInputsRef'.pitch <= 0
             /\ cameraRef'.rotation[1] < 0 => audioInputsRef'.pitch >= 0
             /\ cameraRef'.rotation[1] = PITCH_LIMIT => audioInputsRef'.pitch = -U
             /\ cameraRef'.rotation[1] = -PITCH_LIMIT => audioInputsRef'.pitch = U]_vars

\* A frame has stopped the pitch at the lower limit, with arrow-up held at the
\* large pitch velocity, and the telemetry reads 1.
C29_Witness ==
    /\ frame.n > 0
    /\ cameraRef.rotation[1] = -PITCH_LIMIT
    /\ audioInputsRef.pitch = U
    /\ "arrowup" \in keysPressed


\* ------------------------------------------------------------------------
\* Specification TeleSpec: the telemetry record under frame timestamps that
\* do not decrease.  A frame arrives with the timestamp of the previous one
\* (advance 0) or 16 ms or 250 ms later; the forward and backward keys are
\* pressed and released in between.
\* ------------------------------------------------------------------------
TeleSessions ==
    { Session("2", emptyControlConfig, QuietSound, defaultShipConfig, 2, 20) }

TeleKeys == {"w", "s"}
TeleAdvances == {0, 16, 250}

TeleInit == \E session \in TeleSessions : Booted(session, 16, FALSE)

TelePress ==
    /\ keysPressed = {}
    /\ \E key \in TeleKeys : pressKey(key, "running", "none")

TeleRelease == \E key \in TeleKeys : ToLowerCase(key) \in keysPressed /\ releaseKey(key)

TeleFrame ==
    /\ frame.n < MaxTeleFrames
    /\ \E adv \in TeleAdvances : gameLoop(adv, 200, MidRandom)

TeleNext == TelePress \/ TeleRelease \/ TeleFrame

TeleSpec == TeleInit /\ [][TeleNext]_vars

DtInRange == 0 <= frame.dt /\ frame.dt <= 100

\* C30 - Telemetry is always finite: the dt of every frame satisfies
\* 0 <= dt <= 0.1 s for non-decreasing timestamps, and on every frame,
\* including the first one and any frame whose timestamp equals the previous
\* one (dt = 0), every telemetry value, the acceleration in particular, is a
\* finite number.
C30_TelemetryFinite == frame.n > 0 => (DtInRange /\ FiniteTelemetry)

\* The part of C30 about dt: it lies in [0, 0.1 s] on every frame.
C30_DtInRange == frame.n > 0 => (DtInRange /\ frame.dt <= frame.timestamp)

\* Every telemetry value is finite on the frames in which time has passed.
C30_FiniteWhenTimePasses == (frame.n > 0 /\ frame.dt > 0) => FiniteTelemetry

\* On a frame with dt = 0 the acceleration is NaN or an infinity, and every
\* other telemetry value is finite.
C30_ZeroDtAcceleration ==
    (frame.n > 0 /\ frame.dt = 0) =>
        /\ ~Finite(audioInputsRef.acceleration)
        /\ \A src \in DOMAIN audioInputsRef \ {"acceleration"} : Finite(audioInputsRef[src])

\* A later frame with the timestamp of the previous one, while the ship moves.
C30_RepeatedTimestamp ==
    /\ frame.n > 1 /\ frame.dt = 0
    /\ audioInputsRef.speed > 0
    /\ audioInputsRef.acceleration = NaN

=============================================================================
